---- MODULE Spec2Model ----
(***************************************************************************)
(* Fire / foam particle simulation of firefighting-vr.                     *)
(*                                                                         *)
(* Two A-Frame components are modelled: "foam-system" (foam-system.js) and *)
(* "fire-system" (part_003).  Each component's tick(time, delta) is one    *)
(* atomic action.  Numbers are fixed point:                                *)
(*   time            milliseconds                                          *)
(*   length          millimetres, velocity mm/s                            *)
(*   fireIntensity   thousandths (IScale = 1.0)                            *)
(*   Math.random()   thousandths, the k-th call of a tick returns          *)
(*                   Rand(rng, k); rng is chosen at start-up and advances  *)
(*                   with every tick                                       *)
(***************************************************************************)
EXTENDS Integers, Sequences, FiniteSets, TLC

(* ───────────── bounds of the model ───────────── *)

\* frame deltas (ms) a scene hands to tick(): a device that repeats a frame
\* time stamp or stalls, and one that runs at 40 Hz or stalls; 70 is clamped
\* to 50.  All are multiples of 25 ms, for which suppressionRate * dt is a
\* whole number of thousandths.
DeltasStalling == {0, 70}

DeltasSteady == {25, 70}

\* number of initial positions of the random stream that are tried
NumSeeds == 2

\* frames after which the bounded exploration stops
MaxFrames == 4

\* start() / stop() calls explored in one run
MaxToggles == 2

\* frames explored of the sustained-contact scene
SustainFrames == 170

\* length at which a run of contact ticks is no longer counted
RunCap == 400

\* control points of the splines that are evaluated on their own
MaxPoints == 3

\* ticks of the cold-start scenario
ColdFrames == 60

\* controller events explored
MaxEvents == 5

\* remove() calls per particle system
MaxRemoves == 2

\* calls of the training-state API explored
MaxCalls == 7

\* show() calls on the tutorial HUD
MaxMessages == 4

\* frames of the run in which the fire is put out and burns out
ExtinguishFrames == 200

\* frames of the runs that fill the fire's particle lists
CapacityFrames == 30

\* dev-helper calls and panel clicks explored
MaxPanelCalls == 4

\* setMode and setEnabled calls on the movement controller
MaxMoveCalls == 6

(* ───────────── arithmetic helpers ───────────── *)

Abs(x) == IF x < 0 THEN -x ELSE x

Sign(x) == IF x < 0 THEN -1 ELSE IF x > 0 THEN 1 ELSE 0

Max(a, b) == IF a >= b THEN a ELSE b

Min(a, b) == IF a <= b THEN a ELSE b

\* a / b rounded toward zero (b > 0): the grid rounding of a float product
TDiv(a, b) == IF a >= 0 THEN a \div b ELSE -((-a) \div b)

\* values Math.random() can return, in thousandths of [0, 1)
RndVals == <<0, 250, 500, 750>>

Rand(seed, k) == RndVals[((seed + k) % Len(RndVals)) + 1]

\* cos / sin of r * 2 * PI for r in RndVals, in thousandths
Cos1000(r) == CASE r = 0 -> 1000 [] r = 250 -> 0 [] r = 500 -> -1000 [] OTHER -> 0

Sin1000(r) == CASE r = 0 -> 0 [] r = 250 -> 1000 [] r = 500 -> 0 [] OTHER -> -1000

Vec(x, y, z) == [x |-> x, y |-> y, z |-> z]

DistSq(a, b) ==
  (a.x - b.x) * (a.x - b.x) + (a.y - b.y) * (a.y - b.y) + (a.z - b.z) * (a.z - b.z)

\* dt = Math.min(delta / 1000, 0.05), in ms
ClampDt(delta) == Min(delta, 50)

(* ───────────── foam-system: schema and state ───────────── *)

\* schema defaults of foam-system, in model units
FoamDefaults ==
  [ autoStart    |-> FALSE,
    rate         |-> 300,     \* particles / s
    maxParticles |-> 7,       \* pool capacity (1500 in the schema)
    speed        |-> 8000,    \* mm/s
    life         |-> 2500,    \* ms
    gravity      |-> -4000,   \* mm/s^2
    drag         |-> 12,      \* tenths
    floorY       |-> 0,       \* mm
    groundSpread |-> 20,      \* tenths
    groundDrag   |-> 60,      \* tenths
    groundBounce |-> 3,       \* hundredths
    turbulence   |-> 8,       \* tenths
    spreadGrowth |-> 15 ]     \* tenths

VARIABLES
  data,         \* foam-system this.data
  emitting,     \* foam-system this.emitting
  particles,    \* foam-system this.particles (the pool)
  activeCount,  \* foam-system this.activeCount
  spawnAcc,     \* foam-system this._spawnAcc, thousandths of a particle
  foamDraw,     \* foam geometry: buffer entries inside the draw range
  frames,       \* number of ticks taken (bounds the exploration)
  lastOp        \* what the last operation did (observation only)

\* a pool record as init() creates it
FreshParticle ==
  [ active |-> FALSE, pos |-> Vec(0, 0, 0), vel |-> Vec(0, 0, 0),
    life |-> 0, maxLife |-> 0, grounded |-> FALSE, groundTime |-> 0,
    \* observation fields: branch of _simulate last applied, pos.y before the
    \* last position integration, number of false->true flips of grounded
    \* in this activation, number of activations of the slot
    branch |-> "none", yPre |-> 0, flips |-> 0, uses |-> 0 ]

Op(name, dt, req, free, spawned, gotNull, hits) ==
  [op |-> name, dt |-> dt, req |-> req, free |-> free, spawned |-> spawned,
   gotNull |-> gotNull, hits |-> hits]

(* ───────────── foam-system: operations ───────────── *)

\* faulty _getSlot(): hands out the first record again when none is inactive
GetSlotReusing(parts) ==
  IF \E i \in 1..Len(parts) : ~parts[i].active
  THEN CHOOSE i \in 1..Len(parts) :
         ~parts[i].active /\ \A j \in 1..(i - 1) : parts[j].active
  ELSE 1

\* _getSlot(): index of the first inactive record, 0 for the null sentinel
GetSlot(parts) ==
  IF \E i \in 1..Len(parts) : ~parts[i].active
  THEN CHOOSE i \in 1..Len(parts) :
         ~parts[i].active /\ \A j \in 1..(i - 1) : parts[j].active
  ELSE 0

\* faulty _spawn(): maxLife is the schema's life, not the particle's own
SpawnedParticleSchemaLife(old, d, origin, dir, seed, k) ==
  LET speed == (d.speed * (4500 + Rand(seed, k))) \div 5000
      life  == (d.life * (8500 + 3 * Rand(seed, k + 1))) \div 10000
  IN [ old EXCEPT
         !.pos = origin,
         !.vel = Vec(TDiv(dir.x * speed, 1000), TDiv(dir.y * speed, 1000),
                     TDiv(dir.z * speed, 1000)),
         !.life = life,
         !.maxLife = d.life,
         !.grounded = FALSE,
         !.groundTime = 0,
         !.active = TRUE,
         !.branch = "spawned",
         !.yPre = origin.y,
         !.flips = 0,
         !.uses = old.uses + 1 ]

\* faulty _spawn(): leaves grounded and groundTime as the slot's previous
\* occupant left them
SpawnedParticleKeepingGround(old, d, origin, dir, seed, k) ==
  LET speed == (d.speed * (4500 + Rand(seed, k))) \div 5000
      life  == (d.life * (8500 + 3 * Rand(seed, k + 1))) \div 10000
  IN [ old EXCEPT
         !.pos = origin,
         !.vel = Vec(TDiv(dir.x * speed, 1000), TDiv(dir.y * speed, 1000),
                     TDiv(dir.z * speed, 1000)),
         !.life = life,
         !.maxLife = life,
         !.active = TRUE,
         !.branch = "spawned",
         !.yPre = origin.y,
         !.flips = 0,
         !.uses = old.uses + 1 ]

\* the fields _spawn() writes into a slot; k is the index of the particle's
\* first Math.random() call in this tick
SpawnedParticle(old, d, origin, dir, seed, k) ==
  LET speed == (d.speed * (4500 + Rand(seed, k))) \div 5000
      life  == (d.life * (8500 + 3 * Rand(seed, k + 1))) \div 10000
  IN [ old EXCEPT
         !.pos = origin,
         !.vel = Vec(TDiv(dir.x * speed, 1000), TDiv(dir.y * speed, 1000),
                     TDiv(dir.z * speed, 1000)),
         !.life = life,
         !.maxLife = life,
         !.grounded = FALSE,
         !.groundTime = 0,
         !.active = TRUE,
         !.branch = "spawned",
         !.yPre = origin.y,
         !.flips = 0,
         !.uses = old.uses + 1 ]

\* the for loop of _spawn(): i particles done so far, count requested.
\* Result: the pool, the number activated, whether _getSlot() returned null.
RECURSIVE SpawnLoop(_, _, _, _, _, _, _)
SpawnLoop(parts, i, count, d, origin, dir, seed) ==
  IF i >= count
  THEN [parts |-> parts, spawned |-> i, gotNull |-> FALSE]
  ELSE LET slot == GetSlot(parts)
       IN IF slot = 0
          THEN [parts |-> parts, spawned |-> i, gotNull |-> TRUE]
          ELSE SpawnLoop(
                 [parts EXCEPT ![slot] =
                    SpawnedParticle(parts[slot], d, origin, dir, seed, 3 * i)],
                 i + 1, count, d, origin, dir, seed)

\* faulty _spawn(dt): requests that found no slot stay in the accumulator
FoamSpawnQueueing(parts, acc, d, dt, origin, dir, seed) ==
  LET acc1  == acc + d.rate * dt
      count == acc1 \div 1000
  IN IF count = 0
     THEN [parts |-> parts, acc |-> acc1, req |-> 0, spawned |-> 0, gotNull |-> FALSE]
     ELSE LET r == SpawnLoop(parts, 0, count, d, origin, dir, seed)
          IN [parts |-> r.parts, acc |-> acc1 - r.spawned * 1000, req |-> count,
              spawned |-> r.spawned, gotNull |-> r.gotNull]

\* _spawn(dt): accumulator, early return on count = 0, then the loop
FoamSpawn(parts, acc, d, dt, origin, dir, seed) ==
  LET acc1  == acc + d.rate * dt
      count == acc1 \div 1000
  IN IF count = 0
     THEN [parts |-> parts, acc |-> acc1, req |-> 0, spawned |-> 0, gotNull |-> FALSE]
     ELSE LET r == SpawnLoop(parts, 0, count, d, origin, dir, seed)
          IN [parts |-> r.parts, acc |-> acc1 - count * 1000, req |-> count,
              spawned |-> r.spawned, gotNull |-> r.gotNull]

\* age = 1 - life / maxLife, in thousandths
Age(p) == 1000 - TDiv(p.life * 1000, p.maxLife)

\* floorY + 0.005: the height a grounded particle is pinned to, mm above floorY
FloorEps == 5

ScaleVec(v, num, den) == Vec(TDiv(v.x * num, den), TDiv(v.y * num, den), TDiv(v.z * num, den))

\* pos.addScaledVector(vel, dt)
Integrate(pos, vel, dt) ==
  Vec(pos.x + TDiv(vel.x * dt, 1000), pos.y + TDiv(vel.y * dt, 1000),
      pos.z + TDiv(vel.z * dt, 1000))

\* faulty ground phase: velocity.y is not reset
GroundStepKeepsVy(p, d, dt) ==
  LET gDamp == Max(0, 10000 - d.groundDrag * dt)
      v     == Vec(TDiv(p.vel.x * gDamp, 10000), p.vel.y, TDiv(p.vel.z * gDamp, 10000))
      q     == Integrate(p.pos, v, dt)
  IN [ p EXCEPT
         !.groundTime = p.groundTime + dt,
         !.vel = v,
         !.pos = [q EXCEPT !.y = d.floorY + FloorEps],
         !.branch = "ground",
         !.yPre = p.pos.y ]

\* ground phase of _simulate (life already decremented)
GroundStep(p, d, dt) ==
  LET gDamp == Max(0, 10000 - d.groundDrag * dt)
      v     == Vec(TDiv(p.vel.x * gDamp, 10000), 0, TDiv(p.vel.z * gDamp, 10000))
      q     == Integrate(p.pos, v, dt)
  IN [ p EXCEPT
         !.groundTime = p.groundTime + dt,
         !.vel = v,
         !.pos = [q EXCEPT !.y = d.floorY + FloorEps],
         !.branch = "ground",
         !.yPre = p.pos.y ]

\* faulty floor collision: the grounded flag is not set
FloorCollideNoFlag(p, d, seed, k) ==
  IF p.pos.y <= d.floorY
  THEN LET impactSpeed == Abs(p.vel.y)
           spreadSpeed == (impactSpeed * d.groundSpread * 3) \div 100
           a           == Rand(seed, k)
       IN [ p EXCEPT
              !.pos.y = d.floorY + FloorEps,
              !.flips = p.flips + 1,
              !.vel = Vec(p.vel.x + TDiv(Cos1000(a) * spreadSpeed, 1000),
                          (impactSpeed * d.groundBounce) \div 100,
                          p.vel.z + TDiv(Sin1000(a) * spreadSpeed, 1000)) ]
  ELSE p

\* floor collision of the airborne phase: p has its position already integrated
FloorCollide(p, d, seed, k) ==
  IF p.pos.y <= d.floorY
  THEN LET impactSpeed == Abs(p.vel.y)
           spreadSpeed == (impactSpeed * d.groundSpread * 3) \div 100
           a           == Rand(seed, k)
       IN [ p EXCEPT
              !.pos.y = d.floorY + FloorEps,
              !.grounded = TRUE,
              !.flips = p.flips + 1,
              !.vel = Vec(p.vel.x + TDiv(Cos1000(a) * spreadSpeed, 1000),
                          (impactSpeed * d.groundBounce) \div 100,
                          p.vel.z + TDiv(Sin1000(a) * spreadSpeed, 1000)) ]
  ELSE p

\* airborne phase of _simulate (life already decremented): gravity, drag,
\* turbulence, late-life spread, integration, floor collision
AirStep(p, d, dt, seed, k) ==
  LET age  == Age(p)
      v1   == [p.vel EXCEPT !.y = p.vel.y + TDiv(d.gravity * dt, 1000)]
      v2   == ScaleVec(v1, Max(0, 10000 - d.drag * dt), 10000)
      t    == d.turbulence * dt
      v3   == IF d.turbulence > 0
              THEN Vec(v2.x + TDiv((Rand(seed, k) - 500) * t * 2, 10000),
                       v2.y + TDiv((Rand(seed, k + 1) - 500) * t, 10000),
                       v2.z + TDiv((Rand(seed, k + 2) - 500) * t * 2, 10000))
              ELSE v2
      f    == d.spreadGrowth * (age - 250) * dt
      v4   == IF d.spreadGrowth > 0 /\ age > 250
              THEN Vec(v3.x + TDiv((Rand(seed, k + 3) - 500) * 2 * f, 10000000),
                       v3.y,
                       v3.z + TDiv((Rand(seed, k + 4) - 500) * 2 * f, 10000000))
              ELSE v3
      moved == [ p EXCEPT !.vel = v4, !.pos = Integrate(p.pos, v4, dt),
                          !.branch = "air", !.yPre = p.pos.y ]
  IN FloorCollide(moved, d, seed, k + 5)

\* faulty _simulate: a record expires only when life < 0
SimParticleLate(p, d, dt, seed, k) ==
  IF ~p.active
  THEN p
  ELSE LET q == [p EXCEPT !.life = p.life - dt]
       IN IF q.life < 0
          THEN [q EXCEPT !.active = FALSE, !.branch = "expired"]
          ELSE IF q.grounded THEN GroundStep(q, d, dt) ELSE AirStep(q, d, dt, seed, k)

\* faulty _simulate: the ground branch is taken only while the particle is at
\* or below the floor
SimParticleByHeight(p, d, dt, seed, k) ==
  IF ~p.active
  THEN p
  ELSE LET q == [p EXCEPT !.life = p.life - dt]
       IN IF q.life <= 0
          THEN [q EXCEPT !.active = FALSE, !.branch = "expired"]
          ELSE IF q.grounded /\ q.pos.y <= d.floorY
               THEN GroundStep(q, d, dt)
               ELSE AirStep(q, d, dt, seed, k)

\* faulty _simulate: an expired record is thrown away and a new one takes
\* its place in the pool
SimParticleReplacing(p, d, dt, seed, k) ==
  IF ~p.active
  THEN p
  ELSE LET q == [p EXCEPT !.life = p.life - dt]
       IN IF q.life <= 0
          THEN [FreshParticle EXCEPT !.branch = "expired"]
          ELSE IF q.grounded THEN GroundStep(q, d, dt) ELSE AirStep(q, d, dt, seed, k)

\* body of the for loop of _simulate for one pool record
SimParticle(p, d, dt, seed, k) ==
  IF ~p.active
  THEN p
  ELSE LET q == [p EXCEPT !.life = p.life - dt]
       IN IF q.life <= 0
          THEN [q EXCEPT !.active = FALSE, !.branch = "expired"]
          ELSE IF q.grounded THEN GroundStep(q, d, dt) ELSE AirStep(q, d, dt, seed, k)

\* _simulate(dt) over the whole pool
Simulate(parts, d, dt, seed) ==
  [i \in 1..Len(parts) |-> SimParticle(parts[i], d, dt, seed, 7 * i)]

\* faulty count: an expiry on the ground leaves activeCount alone
ExpiredAirborne(before, after) ==
  Cardinality({i \in 1..Len(before) :
                 before[i].active /\ ~after[i].active /\ ~before[i].grounded})

\* number of records _simulate deactivated (activeCount--)
Expired(before, after) ==
  Cardinality({i \in 1..Len(before) : before[i].active /\ ~after[i].active})

ActiveSlots(parts) == {i \in 1..Len(parts) : parts[i].active}

\* _updateGeometry(): one buffer entry per active record, in pool order;
\* the draw range is the length of the result
RECURSIVE GeometryFrom(_, _)
GeometryFrom(parts, i) ==
  IF i > Len(parts)
  THEN <<>>
  ELSE IF parts[i].active
       THEN <<[slot |-> i, pos |-> parts[i].pos, age |-> Age(parts[i])]>>
              \o GeometryFrom(parts, i + 1)
       ELSE GeometryFrom(parts, i + 1)

\* faulty _updateGeometry(): writes and draws every pool record
UpdateGeometryWholePool(parts) ==
  [i \in 1..Len(parts) |-> [slot |-> i, pos |-> parts[i].pos, age |-> 0]]

UpdateGeometry(parts) == GeometryFrom(parts, 1)

(* ───────────── getLinearSpline ───────────── *)

\* A spline is its points array: a sequence of <<t, d>> pairs in the order
\* addPoint() pushed them.  t is in thousandths.

\* addPoint(t, d)
AddPointTo(points, t, d) == Append(points, <<t, d>>)

\* the loop of getValueAt(t): the index before the first point with
\* points[i][0] >= t, or the first index when there is none before
\* (indices from 1)
SplineP1(points, t) ==
  LET stop == {i \in 1..Len(points) : points[i][1] >= t}
      brk  == IF stop = {} THEN Len(points) + 1
              ELSE CHOOSE i \in stop : \A j \in stop : i <= j
  IN IF brk = 1 THEN 1 ELSE brk - 1

SplineP2(points, t) == Min(Len(points), SplineP1(points, t) + 1)

\* getValueAt(t) divides by points[p2][0] - points[p1][0]: when that is 0 the
\* interpolation parameter, and with it the result, is NaN or an infinity
SplineNaN(points, t) ==
  LET p1 == SplineP1(points, t)
      p2 == SplineP2(points, t)
  IN p1 # p2 /\ points[p2][1] = points[p1][1]

\* (t, a, b) => a + t * (b - a), values in thousandths; 0 stands in for the
\* NaN of a zero denominator, which SplineNaN reports
ScalarLerp(num, den, a, b) ==
  IF den = 0 THEN 0 ELSE a + TDiv(num * (b - a), den)

\* new THREE.Color(0xRRGGBB): channels in thousandths of 1/255
Colour(r, g, b) == [r |-> r * 1000, g |-> g * 1000, b |-> b * 1000]

\* (t, a, b) => a.clone().lerp(b, t): a new colour, a and b are left alone
ColourLerp(num, den, a, b) ==
  [r |-> a.r + TDiv(num * (b.r - a.r), den),
   g |-> a.g + TDiv(num * (b.g - a.g), den),
   b |-> a.b + TDiv(num * (b.b - a.b), den)]

\* the spline's _lerp, applied as _lerp(num / den, a, b); lerp names the
\* function the spline was made with
ApplyLerp(lerp, num, den, a, b) ==
  IF lerp = "colour"
  THEN ColourLerp(num, den, a, b)
  ELSE ScalarLerp(num, den, a, b)

\* getValueAt(t) of a spline made with lerp
GetValueAt(points, t, lerp) ==
  LET p1 == SplineP1(points, t)
      p2 == SplineP2(points, t)
  IN IF p1 = p2
     THEN points[p1][2]
     ELSE ApplyLerp(lerp, t - points[p1][1], points[p2][1] - points[p1][1],
                    points[p1][2], points[p2][2])

\* pairs.forEach(([t, c]) => spline.addPoint(t, c)) on a new spline
RECURSIVE SplineFrom(_)
SplineFrom(pairs) ==
  IF pairs = <<>>
  THEN <<>>
  ELSE AddPointTo(SplineFrom(SubSeq(pairs, 1, Len(pairs) - 1)),
                  pairs[Len(pairs)][1], pairs[Len(pairs)][2])

(* ───────────── fire-system: schema and state ───────────── *)

\* fireIntensity 1.0
IScale == 1000

\* this.suppressionRate = 0.12, thousandths of intensity per second
SuppressionRate == 120

\* hitRadius = 2.5, in mm
HitRadius == 2500

\* one particle, in the unit of effectiveRate * dt (rate in thousandths of a
\* particle per second, dt in ms)
ParticleUnit == IScale * 1000

\* schema defaults of fire-system, in model units
FireDefaults ==
  [ fireRate         |-> 75,
    smokeRate        |-> 35,
    ceilingSmokeRate |-> 25,
    radius           |-> 400,
    maxLife          |-> 1800,
    smokeMaxLife     |-> 3500,
    ceilingHeight    |-> 5500,
    ceilingWidth     |-> 10000,
    ceilingDepth     |-> 8000,
    enableCeiling    |-> TRUE ]

VARIABLES
  fireData,       \* fire-system this.data
  fireIntensity,  \* fire-system this.fireIntensity, thousandths
  systems,        \* fire-system this.systems
  scene,          \* scene: nozzle presence and pose, frame deltas, tick order
  turn,           \* scene: component whose tick is next, and the frame's delta
  toggles,        \* start() / stop() calls so far (bounds the exploration)
  contact,        \* run of fire ticks with foam contact (observation only)
  emission,       \* spawn requests seen so far, per system (observation only)
  spline,         \* a spline under evaluation: points, last t, last result
  rng             \* position of the Math.random() stream

VARIABLES
  ctrl,           \* extinguisher-controller: its data and its state flags
  torn,           \* render resources of both particle systems, remove() calls
  burn,           \* burn-effect: its data, burnAmount, _accumTime
  training,       \* training-state: initial, current, and the calls made
  hud,            \* tutorial-hud: queue, current message, timer, what was shown
  panels,         \* interactive-panels and the training manager driving it
  move            \* movement-controller and the teleport controls it sets

fireVars == <<fireData, fireIntensity, systems>>

\* the state of the components around the two particle systems
others == <<ctrl, torn, burn, training, hud, panels, move>>

vars == <<data, emitting, particles, activeCount, spawnAcc, foamDraw,
          fireData, fireIntensity, systems, scene, turn, toggles, contact, rng,
          frames, lastOp, emission, spline, ctrl, torn, burn, training, hud,
          panels, move>>

\* world position of the fire entity (this.el.object3D.getWorldPosition)
FirePos == Vec(0, 0, -2000)

\* sys.camera.position
CameraPos == Vec(0, 1600, 2000)

\* capacity = Math.max(64, Math.ceil(rate * maxLife * 1.5))
Capacity(rate, maxLife) == Max(64, (rate * maxLife * 15 + 9999) \div 10000)

\* _createParticleSystem(config): the fields the simulation reads
CreateParticleSystem(rate, radius, maxLife, velocity, colors, suppressedColors, isCeiling, isFire, isSmoke) ==
  [ rate |-> rate, radius |-> radius, maxLife |-> maxLife, velocity |-> velocity,
    isCeiling |-> isCeiling, isFire |-> isFire, isSmoke |-> isSmoke,
    colorSpline |-> SplineFrom(colors),
    \* <<>> stands for the null of a system without suppressedColors
    suppressedColorSpline |-> SplineFrom(suppressedColors),
    capacity |-> Capacity(rate, maxLife),
    \* sys.accumulator, a time, is kept as the exact fraction
    \* accumulator / (rate * accRate): accumulator is that time valued in
    \* particles (ParticleUnit) at the rate factor accRate it was last used with
    particles |-> <<>>, accumulator |-> 0, accRate |-> 0, sortSkip |-> 0,
    draw |-> <<>>,
    \* observation: spawn requests and spawns of the last _addParticles, and
    \* the number of records pushed so far (numbers the records)
    req |-> 0, spawned |-> 0, pushed |-> 0, free |-> 0 ]

\* init(): fire, smoke and (if enabled) ceiling smoke, in this order
InitSystems(fd) ==
  LET fire  == CreateParticleSystem(fd.fireRate, fd.radius, fd.maxLife,
                                    Vec(0, 2000, 0),
                                    << <<0, Colour(255, 255, 255)>>,
                                       <<300, Colour(255, 255, 128)>>,
                                       <<600, Colour(255, 128, 48)>>,
                                       <<1000, Colour(255, 48, 16)>> >>,
                                    << <<0, Colour(170, 170, 170)>>,
                                       <<300, Colour(136, 136, 136)>>,
                                       <<600, Colour(102, 102, 102)>>,
                                       <<1000, Colour(68, 68, 68)>> >>,
                                    FALSE, TRUE, FALSE)
      smoke == CreateParticleSystem(fd.smokeRate, (fd.radius * 12) \div 10, fd.smokeMaxLife,
                                    Vec(0, 1200, 0),
                                    << <<0, Colour(68, 68, 68)>>,
                                       <<500, Colour(51, 51, 51)>>,
                                       <<1000, Colour(34, 34, 34)>> >>,
                                    << <<0, Colour(153, 153, 153)>>,
                                       <<500, Colour(136, 136, 136)>>,
                                       <<1000, Colour(119, 119, 119)>> >>,
                                    FALSE, FALSE, TRUE)
      ceil  == CreateParticleSystem(fd.ceilingSmokeRate, fd.radius, 5000,
                                    Vec(0, 300, 0),
                                    << <<0, Colour(56, 56, 56)>>,
                                       <<500, Colour(42, 42, 42)>>,
                                       <<1000, Colour(26, 26, 26)>> >>,
                                    << <<0, Colour(136, 136, 136)>>,
                                       <<500, Colour(119, 119, 119)>>,
                                       <<1000, Colour(102, 102, 102)>> >>,
                                    TRUE, FALSE, TRUE)
  IN IF fd.enableCeiling THEN <<fire, smoke, ceil>> ELSE <<fire, smoke>>

(* ───────────── fire-system: operations ───────────── *)

\* foamHitCount: active foam particles with distanceToSquared(firePos) < hitRadiusSq
FoamHitCount(parts, fp) ==
  Cardinality({i \in 1..Len(parts) :
                 parts[i].active /\ DistSq(parts[i].pos, fp) < HitRadius * HitRadius})

\* this.recoveryRate = 0.02, thousandths of intensity per second
RecoveryRate == 20

\* faulty _checkFoamSuppression: the commented-out recovery is applied
CheckFoamSuppressionRecovering(intensity, present, foamEmitting, parts, fp, dt) ==
  IF ~present
  THEN intensity
  ELSE IF ~foamEmitting
       THEN intensity
       ELSE IF FoamHitCount(parts, fp) > 5
            THEN Max(0, intensity - (SuppressionRate * dt) \div 1000)
            ELSE Min(IScale, intensity + (RecoveryRate * dt) \div 1000)

\* faulty _checkFoamSuppression: no early return when the foam is not emitting
CheckFoamSuppressionAnyState(intensity, present, foamEmitting, parts, fp, dt) ==
  IF ~present
  THEN intensity
  ELSE IF FoamHitCount(parts, fp) > 5
       THEN Max(0, intensity - (SuppressionRate * dt) \div 1000)
       ELSE intensity

\* faulty _checkFoamSuppression: 5 hits are enough
CheckFoamSuppressionAtFive(intensity, present, foamEmitting, parts, fp, dt) ==
  IF ~present
  THEN intensity
  ELSE IF ~foamEmitting
       THEN intensity
       ELSE IF FoamHitCount(parts, fp) >= 5
            THEN Max(0, intensity - (SuppressionRate * dt) \div 1000)
            ELSE intensity

\* faulty _checkFoamSuppression: suppresses at the recovery rate
CheckFoamSuppressionSlow(intensity, present, foamEmitting, parts, fp, dt) ==
  IF ~present
  THEN intensity
  ELSE IF ~foamEmitting
       THEN intensity
       ELSE IF FoamHitCount(parts, fp) > 5
            THEN Max(0, intensity - (RecoveryRate * dt) \div 1000)
            ELSE intensity

\* faulty _checkFoamSuppression: takes the foam-system of any entity
CheckFoamSuppressionAnyNozzle(intensity, present, foamEmitting, parts, fp, dt) ==
  IF ~foamEmitting
  THEN intensity
  ELSE IF FoamHitCount(parts, fp) > 5
       THEN Max(0, intensity - (SuppressionRate * dt) \div 1000)
       ELSE intensity

\* _checkFoamSuppression(dt): the new fireIntensity
CheckFoamSuppression(intensity, present, foamEmitting, parts, fp, dt) ==
  IF ~present
  THEN intensity
  ELSE IF ~foamEmitting
       THEN intensity
       ELSE IF FoamHitCount(parts, fp) > 5
            THEN Max(0, intensity - (SuppressionRate * dt) \div 1000)
            ELSE intensity

\* faulty rateFactor: smoke follows fireIntensity without the 0.15 offset
RateFactorNoThreshold(sys, intensity) ==
  IF sys.isFire THEN intensity
  ELSE IF sys.isSmoke THEN Max(0, intensity)
  ELSE 1000

\* faulty rateFactor: the rates follow the suppression, not the intensity
RateFactorInverted(sys, intensity) ==
  IF sys.isFire THEN IScale - intensity
  ELSE IF sys.isSmoke THEN Max(0, IScale - intensity - 150)
  ELSE 1000

\* faulty rateFactor: Math.abs where the code has Math.max(0, ...), so
\* smoke comes back below 0.15
RateFactorAbsolute(sys, intensity) ==
  IF sys.isFire THEN intensity
  ELSE IF sys.isSmoke THEN Abs(intensity - 150)
  ELSE 1000

\* rateFactor of _addParticles, in thousandths
RateFactor(sys, intensity) ==
  IF sys.isFire THEN intensity
  ELSE IF sys.isSmoke THEN Max(0, intensity - 150)
  ELSE 1000

\* effectiveRate = sys.rate * rateFactor, thousandths of a particle per second
EffectiveRate(sys, intensity) == sys.rate * RateFactor(sys, intensity)

\* the record _addParticles pushes; k is the index of its first Math.random() call
NewFireParticle(sys, fd, emitterPos, seed, k, id) ==
  LET life == (sys.maxLife * (3 * Rand(seed, k) + 1000)) \div 4000
      R(j) == Rand(seed, k + j)
      position ==
        IF sys.isCeiling
        THEN Vec(emitterPos.x + TDiv((R(1) - 500) * fd.ceilingWidth, 1000),
                 fd.ceilingHeight - 100,
                 emitterPos.z + TDiv((R(2) - 500) * fd.ceilingDepth, 1000))
        ELSE Vec(emitterPos.x + TDiv((2 * R(1) - 1000) * sys.radius, 1000),
                 emitterPos.y + TDiv((2 * R(2) - 1000) * sys.radius * 3, 10000),
                 emitterPos.z + TDiv((2 * R(3) - 1000) * sys.radius, 1000))
      vel ==
        IF sys.isCeiling
        THEN Vec(TDiv((R(3) - 500) * 8, 10), -50, TDiv((R(4) - 500) * 8, 10))
        ELSE Vec(sys.velocity.x + TDiv(R(4) - 500, 2),
                 sys.velocity.y + R(5) \div 2,
                 sys.velocity.z + TDiv(R(6) - 500, 2))
  IN [ position |-> position, velocity |-> vel, life |-> life, maxLife |-> life,
       colour |-> Colour(255, 255, 255), isCeiling |-> sys.isCeiling, id |-> id ]

\* the for loop of _addParticles: i of n requests handled, stops at capacity
RECURSIVE AddLoop(_, _, _, _, _, _, _)
AddLoop(ps, i, n, sys, fd, emitterPos, seed) ==
  IF i >= n \/ Len(ps) >= sys.capacity
  THEN ps
  ELSE AddLoop(Append(ps, NewFireParticle(sys, fd, emitterPos, seed, 7 * i,
                                          sys.pushed + i + 1)),
               i + 1, n, sys, fd, emitterPos, seed)

\* sys.accumulator * effectiveRate for the rate factor of this call: the time
\* carried over, valued in particles at the new rate
AccumulatedAt(sys, factor) ==
  IF sys.accumulator = 0 \/ sys.accRate = factor
  THEN sys.accumulator
  ELSE (sys.accumulator * factor) \div sys.accRate

\* faulty _addParticles: at a rate <= 0 the accumulator keeps running
AddParticlesNoReset(sys, fd, intensity, emitterPos, dt, seed) ==
  LET factor        == RateFactor(sys, intensity)
      effectiveRate == EffectiveRate(sys, intensity)
  IN IF effectiveRate <= 0
     THEN [sys EXCEPT !.req = 0, !.spawned = 0,
                      !.free = sys.capacity - Len(sys.particles)]
     ELSE LET acc == AccumulatedAt(sys, factor) + effectiveRate * dt
              n   == acc \div ParticleUnit
              ps  == AddLoop(sys.particles, 0, n, sys, fd, emitterPos, seed)
          IN [ sys EXCEPT
                 !.accumulator = acc - n * ParticleUnit,
                 !.accRate = factor,
                 !.particles = ps,
                 !.req = n,
                 !.free = sys.capacity - Len(sys.particles),
                 !.spawned = Len(ps) - Len(sys.particles),
                 !.pushed = sys.pushed + Len(ps) - Len(sys.particles) ]

\* faulty _addParticles: the count is rounded to the nearest whole number
AddParticlesRounding(sys, fd, intensity, emitterPos, dt, seed) ==
  LET factor        == RateFactor(sys, intensity)
      effectiveRate == EffectiveRate(sys, intensity)
  IN IF effectiveRate <= 0
     THEN [sys EXCEPT !.accumulator = 0, !.accRate = 0, !.req = 0, !.spawned = 0,
                      !.free = sys.capacity - Len(sys.particles)]
     ELSE LET acc == AccumulatedAt(sys, factor) + effectiveRate * dt
              n   == (acc + ParticleUnit \div 2) \div ParticleUnit
              ps  == AddLoop(sys.particles, 0, n, sys, fd, emitterPos, seed)
          IN [ sys EXCEPT
                 !.accumulator = Max(0, acc - n * ParticleUnit),
                 !.accRate = factor,
                 !.particles = ps,
                 !.req = n,
                 !.free = sys.capacity - Len(sys.particles),
                 !.spawned = Len(ps) - Len(sys.particles),
                 !.pushed = sys.pushed + Len(ps) - Len(sys.particles) ]

\* faulty _addParticles: the remainder is discarded after every call
AddParticlesTruncating(sys, fd, intensity, emitterPos, dt, seed) ==
  LET factor        == RateFactor(sys, intensity)
      effectiveRate == EffectiveRate(sys, intensity)
  IN IF effectiveRate <= 0
     THEN [sys EXCEPT !.accumulator = 0, !.accRate = 0, !.req = 0, !.spawned = 0,
                      !.free = sys.capacity - Len(sys.particles)]
     ELSE LET acc == AccumulatedAt(sys, factor) + effectiveRate * dt
              n   == acc \div ParticleUnit
              ps  == AddLoop(sys.particles, 0, n, sys, fd, emitterPos, seed)
          IN [ sys EXCEPT
                 !.accumulator = 0,
                 !.accRate = factor,
                 !.particles = ps,
                 !.req = n,
                 !.free = sys.capacity - Len(sys.particles),
                 !.spawned = Len(ps) - Len(sys.particles),
                 !.pushed = sys.pushed + Len(ps) - Len(sys.particles) ]

\* faulty _addParticles: the time already turned into particles stays in
\* the accumulator
AddParticlesKeepingTime(sys, fd, intensity, emitterPos, dt, seed) ==
  LET factor        == RateFactor(sys, intensity)
      effectiveRate == EffectiveRate(sys, intensity)
  IN IF effectiveRate <= 0
     THEN [sys EXCEPT !.accumulator = 0, !.accRate = 0, !.req = 0, !.spawned = 0,
                      !.free = sys.capacity - Len(sys.particles)]
     ELSE LET acc == AccumulatedAt(sys, factor) + effectiveRate * dt
              n   == acc \div ParticleUnit
              ps  == AddLoop(sys.particles, 0, n, sys, fd, emitterPos, seed)
          IN [ sys EXCEPT
                 !.accumulator = acc,
                 !.accRate = factor,
                 !.particles = ps,
                 !.req = n,
                 !.free = sys.capacity - Len(sys.particles),
                 !.spawned = Len(ps) - Len(sys.particles),
                 !.pushed = sys.pushed + Len(ps) - Len(sys.particles) ]

\* _addParticles(sys, timeElapsed): sys.accumulator += timeElapsed,
\* n = floor(accumulator * effectiveRate), accumulator -= n / effectiveRate
AddParticles(sys, fd, intensity, emitterPos, dt, seed) ==
  LET factor        == RateFactor(sys, intensity)
      effectiveRate == EffectiveRate(sys, intensity)
  IN IF effectiveRate <= 0
     THEN [sys EXCEPT !.accumulator = 0, !.accRate = 0, !.req = 0, !.spawned = 0,
                      !.free = sys.capacity - Len(sys.particles)]
     ELSE LET acc == AccumulatedAt(sys, factor) + effectiveRate * dt
              n   == acc \div ParticleUnit
              ps  == AddLoop(sys.particles, 0, n, sys, fd, emitterPos, seed)
          IN [ sys EXCEPT
                 !.accumulator = acc - n * ParticleUnit,
                 !.accRate = factor,
                 !.particles = ps,
                 !.req = n,
                 !.free = sys.capacity - Len(sys.particles),
                 !.spawned = Len(ps) - Len(sys.particles),
                 !.pushed = sys.pushed + Len(ps) - Len(sys.particles) ]

\* per-particle motion of _updateParticles (after the expiry filter)
MoveFireParticle(p, fd, emitterPos, dt, seed, k) ==
  LET pos == Integrate(p.position, p.velocity, dt)
      v   == p.velocity
  IN IF p.isCeiling
     THEN LET vx1 == v.x + TDiv((Rand(seed, k) - 500) * dt, 4000)
              vz1 == v.z + TDiv((Rand(seed, k + 1) - 500) * dt, 4000)
              vx2 == IF Abs(pos.x - emitterPos.x) > fd.ceilingWidth \div 2
                     THEN TDiv(-vx1, 2) ELSE vx1
              vz2 == IF Abs(pos.z - emitterPos.z) > fd.ceilingDepth \div 2
                     THEN TDiv(-vz1, 2) ELSE vz1
              vy2 == IF pos.y < fd.ceilingHeight - 300 THEN v.y + dt \div 10 ELSE v.y
          IN [p EXCEPT !.position = pos, !.velocity = Vec(vx2, vy2, vz2)]
     ELSE LET Drag(c) == Sign(c) * Min(Abs(TDiv(c * dt, 10000)), Abs(c))
          IN [p EXCEPT !.position = pos,
                       !.velocity = Vec(v.x - Drag(v.x), v.y - Drag(v.y), v.z - Drag(v.z))]

\* insert p into ps, which is sorted far-to-near from the camera, after the
\* entries that are at least as far (Array.prototype.sort is stable)
RECURSIVE InsertByDistance(_, _, _)
InsertByDistance(ps, p, cam) ==
  IF ps = <<>>
  THEN <<p>>
  ELSE IF DistSq(cam, Head(ps).position) >= DistSq(cam, p.position)
       THEN <<Head(ps)>> \o InsertByDistance(Tail(ps), p, cam)
       ELSE <<p>> \o ps

\* sys.particles.sort((a, b) => d2 - d1): back to front
RECURSIVE SortByDistance(_, _)
SortByDistance(ps, cam) ==
  IF ps = <<>>
  THEN <<>>
  ELSE InsertByDistance(SortByDistance(SubSeq(ps, 1, Len(ps) - 1), cam), ps[Len(ps)], cam)

\* faulty blend: the factor is fireIntensity instead of 1 - fireIntensity
BlendColourInverted(normalColor, suppressedColor, intensity) ==
  LET factor == intensity
  IN [r |-> normalColor.r + TDiv((suppressedColor.r - normalColor.r) * factor, 1000),
      g |-> normalColor.g + TDiv((suppressedColor.g - normalColor.g) * factor, 1000),
      b |-> normalColor.b + TDiv((suppressedColor.b - normalColor.b) * factor, 1000)]

\* p.colour.copy(normalColor).lerp(suppressedColor, 1.0 - this.fireIntensity)
BlendColour(normalColor, suppressedColor, intensity) ==
  LET factor == 1000 - intensity
  IN [r |-> normalColor.r + TDiv((suppressedColor.r - normalColor.r) * factor, 1000),
      g |-> normalColor.g + TDiv((suppressedColor.g - normalColor.g) * factor, 1000),
      b |-> normalColor.b + TDiv((suppressedColor.b - normalColor.b) * factor, 1000)]

\* the colour _updateParticles gives a particle of age t
ParticleColour(sys, t, intensity) ==
  IF sys.suppressedColorSpline # <<>>
  THEN BlendColour(GetValueAt(sys.colorSpline, t, "colour"),
                   GetValueAt(sys.suppressedColorSpline, t, "colour"), intensity)
  ELSE GetValueAt(sys.colorSpline, t, "colour")

\* faulty _updateParticles: the sort counter is decremented before the test
\* (--sys.sortSkip <= 0)
UpdateParticlesPreDecrement(sys, fd, intensity, emitterPos, cam, dt, seed) ==
  LET aged  == [i \in 1..Len(sys.particles) |->
                  [sys.particles[i] EXCEPT !.life = sys.particles[i].life - dt]]
      alive == SelectSeq(aged, LAMBDA p : p.life > 0)
      moved == [i \in 1..Len(alive) |->
                  MoveFireParticle(
                    [alive[i] EXCEPT !.colour = ParticleColour(sys, Age(alive[i]), intensity)],
                    fd, emitterPos, dt, seed, 3 * i)]
  IN IF sys.sortSkip - 1 <= 0
     THEN [sys EXCEPT !.particles = SortByDistance(moved, cam), !.sortSkip = 5]
     ELSE [sys EXCEPT !.particles = moved, !.sortSkip = sys.sortSkip - 1]

\* _updateParticles(sys, timeElapsed)
UpdateParticles(sys, fd, intensity, emitterPos, cam, dt, seed) ==
  LET aged  == [i \in 1..Len(sys.particles) |->
                  [sys.particles[i] EXCEPT !.life = sys.particles[i].life - dt]]
      alive == SelectSeq(aged, LAMBDA p : p.life > 0)
      moved == [i \in 1..Len(alive) |->
                  MoveFireParticle(
                    [alive[i] EXCEPT !.colour = ParticleColour(sys, Age(alive[i]), intensity)],
                    fd, emitterPos, dt, seed, 3 * i)]
  IN IF sys.sortSkip <= 0
     THEN [sys EXCEPT !.particles = SortByDistance(moved, cam), !.sortSkip = 5]
     ELSE [sys EXCEPT !.particles = moved, !.sortSkip = sys.sortSkip - 1]

\* _updateGeometry(sys): the buffer entries inside the draw range
FireGeometry(sys) ==
  LET drawCount == Min(Len(sys.particles), sys.capacity)
  IN [sys EXCEPT !.draw =
        [i \in 1..drawCount |->
           [id |-> sys.particles[i].id, pos |-> sys.particles[i].position,
            colour |-> sys.particles[i].colour, age |-> Age(sys.particles[i])]]]

\* the body of systems.forEach in tick()
TickSystem(sys, fd, intensity, emitterPos, cam, dt, seed) ==
  FireGeometry(
    UpdateParticles(AddParticles(sys, fd, intensity, emitterPos, dt, seed),
                    fd, intensity, emitterPos, cam, dt, seed))

(* ───────────── scenes explored ───────────── *)

\* nozzle poses: world position and unit forward direction (thousandths)
PoseHigh == [origin |-> Vec(0, 1000, 0), dir |-> Vec(0, -600, -800)]

PoseLow == [origin |-> Vec(0, 300, -1000), dir |-> Vec(0, -1000, 0)]

PoseUnder == [origin |-> Vec(0, -100, -1000), dir |-> Vec(0, 0, -1000)]

\* a scene: the attributes of both components, whether the fire finds a
\* foam-system on #foam-nozzle, where the foam-system's entity is, the frame deltas of the device, which
\* component the scene ticks first, and the number of frames explored
SceneOf(foam, fire, present, pose, deltas, first, cap) ==
  [foam |-> foam, fire |-> fire, present |-> present, pose |-> pose,
   deltas |-> deltas, first |-> first, cap |-> cap]

QuickFire == [FireDefaults EXCEPT !.maxLife = 100, !.smokeMaxLife = 200]

Scenes ==
  { SceneOf(FoamDefaults, QuickFire, TRUE, PoseHigh, DeltasStalling, "foam", MaxFrames),
    SceneOf([FoamDefaults EXCEPT !.life = 100], QuickFire, TRUE, PoseLow, DeltasSteady,
            "fire", MaxFrames),
    SceneOf([FoamDefaults EXCEPT !.rate = 40, !.turbulence = 0, !.spreadGrowth = 0],
            QuickFire, TRUE, PoseUnder, DeltasSteady, "foam", MaxFrames),
    \* the foam-system sits on an entity that is not #foam-nozzle: it sprays at
    \* the fire, but the fire's querySelector("#foam-nozzle") finds nothing
    SceneOf([FoamDefaults EXCEPT !.life = 100], QuickFire, FALSE, PoseLow, DeltasSteady,
            "foam", MaxFrames) }

\* sustained contact: an auto-started nozzle held low next to the fire, a
\* pool of 12 fed with 15.5 particles per frame of 50 ms, flames that live up to a second; the fire
\* ticks first, so its first tick still runs at full intensity
SustainScene ==
  SceneOf([FoamDefaults EXCEPT !.autoStart = TRUE, !.maxParticles = 12, !.rate = 310],
          [QuickFire EXCEPT !.enableCeiling = FALSE, !.maxLife = 1000], TRUE, PoseLow,
          {70}, "fire", SustainFrames)

Seeds == 0..(NumSeeds - 1)

\* the stream position after one more tick
NextRng(r) == (r + 1) % Len(RndVals)

(* ───────────── emission bookkeeping (observation only) ───────────── *)

\* a run of consecutive spawn steps with the same rate and the same dt: its
\* length n and the spawn requests issued in it
FreshRun == [rate |-> 0, dt |-> 0, n |-> 0, total |-> 0]

NextRun(run, rate, dt, req) ==
  IF run.n > 0 /\ run.rate = rate /\ run.dt = dt
  THEN [run EXCEPT !.n = run.n + 1, !.total = run.total + req]
  ELSE [rate |-> rate, dt |-> dt, n |-> 1, total |-> req]

\* per fire/smoke system: the effective rate of the last _addParticles and the
\* accumulator it started from; the reference accumulator of the emission
\* contract (acc += effectiveRate * dt; n = floor(acc); acc -= n, reset at
\* rate <= 0) and its last count; whether every call since the accumulator
\* was last reset used the same rate (rate0); the current run
FreshEmission ==
  [rate |-> 0, accPre |-> 0, refAcc |-> 0, refReq |-> 0, rate0 |-> 0,
   steady |-> TRUE, run |-> FreshRun]

NextEmission(e, before, after, intensity, dt) ==
  LET rate == EffectiveRate(before, intensity)
      acc  == e.refAcc + (rate * dt)
      n    == acc \div ParticleUnit
  IN IF rate <= 0
     THEN [FreshEmission EXCEPT !.accPre = before.accumulator]
     ELSE [ rate   |-> rate,
            accPre |-> before.accumulator,
            refAcc |-> acc - n * ParticleUnit,
            refReq |-> n,
            rate0  |-> IF e.rate0 = 0 THEN rate ELSE e.rate0,
            steady |-> IF e.rate0 = 0 THEN TRUE ELSE e.steady /\ rate = e.rate0,
            run    |-> NextRun(e.run, rate, dt, after.req) ]

(* ───────────── initial state and actions ───────────── *)

\* getLinearSpline(lerp): no points; nothing evaluated yet
FreshSpline == [points |-> <<>>, t |-> 0, value |-> 0, nan |-> FALSE, calls |-> 0]

\* init() of extinguisher-controller: nothing held, seal in place, not
\* spraying, no seal timer running; events counts the events handled so far
FreshController(enabled, requireSeal) ==
  [enabled |-> enabled, requireSeal |-> requireSeal, isHeld |-> FALSE,
   sealRemoved |-> FALSE, isSpraying |-> FALSE, sealTimers |-> 0, events |-> 0,
   sealEmits |-> 0, regripped |-> FALSE]

\* a THREE.Points as init() leaves it: added to the scene, geometry and
\* material not disposed; the counters count dispose() calls
FreshPoints == [inScene |-> TRUE, geometry |-> 0, material |-> 0]

\* the render resources after init() of both systems, and the number of
\* remove() calls made on each
FreshResources(n) ==
  [foam |-> FreshPoints, foamCalls |-> 0,
   fire |-> [s \in 1..n |-> FreshPoints], light |-> TRUE, fireCalls |-> 0]

\* scene.remove(points); geometry.dispose(); material.dispose()
Disposed(pts) ==
  [inScene |-> FALSE, geometry |-> pts.geometry + 1, material |-> pts.material + 1]

\* faulty foam-system remove(): a flag makes every call after the first a no-op
RemoveFoamOnce(t) ==
  IF t.foamCalls > 0
  THEN [t EXCEPT !.foamCalls = t.foamCalls + 1]
  ELSE [t EXCEPT !.foam = Disposed(t.foam), !.foamCalls = t.foamCalls + 1]

\* foam-system remove(): this.points is set by init() and never cleared
RemoveFoam(t) ==
  [t EXCEPT !.foam = Disposed(t.foam), !.foamCalls = t.foamCalls + 1]

\* fire-system remove(): every sys.points and the fire light
RemoveFire(t) ==
  [t EXCEPT !.fire = [s \in 1..Len(t.fire) |-> Disposed(t.fire[s])],
            !.light = FALSE,
            !.fireCalls = t.fireCalls + 1]

\* foam-system init() and fire-system init()
InitParticles(scenes, seeds) ==
  /\ scene \in scenes
  /\ data = scene.foam
  /\ emitting = data.autoStart
  /\ particles = [i \in 1..data.maxParticles |-> FreshParticle]
  /\ activeCount = 0
  /\ spawnAcc = 0
  /\ foamDraw = <<>>
  /\ fireData = scene.fire
  /\ fireIntensity = IScale
  /\ systems = InitSystems(fireData)
  /\ turn = [who |-> scene.first, delta |-> -1]
  /\ toggles = 0
  /\ contact = [dt |-> 0, any |-> 0, emit |-> 0]
  /\ rng \in seeds
  /\ frames = 0
  /\ lastOp = Op("init", 0, 0, 0, 0, FALSE, 0)
  /\ emission = [sys |-> [s \in 1..Len(systems) |-> FreshEmission], foam |-> FreshRun]
  /\ spline = FreshSpline
  /\ torn = FreshResources(Len(systems))

\* burnAmount 1.0: burnAmount is kept in millionths, burnRate and
\* minIntensity in thousandths
BurnScale == 1000000

\* schema defaults of burn-effect; hasFire: the parent entity carries a
\* fire-system
BurnDefaults ==
  [burnRate |-> 80, minIntensity |-> 200, maxDarkness |-> 700, hasFire |-> TRUE]

\* init() of burn-effect; darkness is the darknessAmount last applied to the
\* materials, ticks and grew observe the ticks taken
FreshBurn(d) ==
  [data |-> d, burnAmount |-> 0, accumTime |-> 0, darkness |-> 0,
   ticks |-> 0, grew |-> FALSE]

\* stateKeys = Object.keys(this.states) of the default configuration
StateKeys == <<"intro", "sizeup", "approach", "suppress", "overhaul", "done">>

\* the `on` tables of the default configuration, as <<state, event, target>>
Transitions ==
  { <<"intro", "start", "sizeup">>,
    <<"sizeup", "proceed", "approach">>,
    <<"approach", "ready", "suppress">>,
    <<"suppress", "fire_out", "overhaul">>,
    <<"overhaul", "done", "done">> }

\* name is one of the configuration's own keys
IsKey(name) == \E k \in 1..Len(StateKeys) : StateKeys[k] = name

\* property names every object inherits from Object.prototype (two of them)
Inherited == {"constructor", "toString"}

\* this.states[name] is truthy: the lookup on the plain configuration
\* object also finds what the object inherits
IsState(name) == IsKey(name) \/ name \in Inherited

\* this.stateKeys.indexOf(name), counted from 1; 0 for -1
IndexOf(name) ==
  IF IsKey(name) THEN CHOOSE k \in 1..Len(StateKeys) : StateKeys[k] = name ELSE 0

\* init() of training-state with data.initial; run tells whether every API
\* call so far was the next script event through next() ("script"), was
\* forward() ("forward"), or neither ("mixed"), steps counts the calls and
\* last describes the last one
FreshTraining(initial) ==
  LET current == IF IsState(initial) THEN initial ELSE StateKeys[1]
  IN [initial |-> initial,
      current |-> current,
      run |-> "none", steps |-> 0,
      last |-> [op |-> "init", arg |-> "", from |-> "", moved |-> TRUE,
                events |-> <<[state |-> current, prev |-> current]>>]]

\* init() and _buildHUD() of tutorial-hud; hasCamera: the document has a
\* #camera, so the HUD and its text element exist.  currentMessage is <<>>
\* for null and <<text>> for a message, timer tells whether the setTimeout
\* of _displayMessage is pending; queued and displayed list the texts handed
\* to show() and those written to the text element, waited is the longest
\* the queue has been
FreshHud(hasCamera) ==
  [hasCamera |-> hasCamera, messages |-> <<>>, currentMessage |-> <<>>,
   timer |-> FALSE, visible |-> FALSE, value |-> "",
   queued |-> <<>>, displayed |-> <<>>, waited |-> 0, removed |-> FALSE]

\* init() of interactive-panels, and of the training manager in front of
\* it: devMode is DEBUG_CONFIG.DEV_MODE, started tells whether the timer set
\* on the scene's loaded event has run, hudTimers counts the pending
\* timers of startMainTraining; calls and last record the calls made
FreshPanels(devMode) ==
  [devMode |-> devMode, currentPanel |-> "none", isLocked |-> FALSE,
   callbacks |-> {}, started |-> FALSE, hudTimers |-> 0,
   calls |-> 0, last |-> "init"]

\* init() and setupTeleportRaycaster() of movement-controller; hasLeft: the
\* document has a #left-hand-controller, teleport is the enabled flag of its
\* teleport-controls, calls counts the setMode and setEnabled calls and
\* emits the movement-mode-changed events
FreshMove(mode, enabled, hasLeft) ==
  [mode |-> mode, dataMode |-> mode, enabled |-> enabled, hasLeft |-> hasLeft,
   teleport |-> hasLeft /\ mode = "teleport", calls |-> 0, last |-> "init",
   emits |-> 0]

\* init() of the components around the particle systems with their schema
\* defaults, except the one named by own, which the caller sets up
InitOthers(own) ==
  /\ IF own = "ctrl" THEN TRUE ELSE ctrl = FreshController(TRUE, FALSE)
  /\ IF own = "burn" THEN TRUE ELSE burn = FreshBurn(BurnDefaults)
  /\ IF own = "training" THEN TRUE ELSE training = FreshTraining("intro")
  /\ IF own = "hud" THEN TRUE ELSE hud = FreshHud(TRUE)
  /\ IF own = "panels" THEN TRUE ELSE panels = FreshPanels(FALSE)
  /\ IF own = "move" THEN TRUE ELSE move = FreshMove("analog", FALSE, TRUE)

\* init() of every component, with the schema defaults outside the particle
\* systems
InitWith(scenes, seeds) ==
  /\ InitParticles(scenes, seeds)
  /\ InitOthers("")

Init == InitWith(Scenes, Seeds)

\* foam-system start()
Start ==
  /\ toggles < MaxToggles
  /\ emitting' = TRUE
  /\ toggles' = toggles + 1
  /\ lastOp' = Op("start", 0, 0, 0, 0, FALSE, 0)
  /\ UNCHANGED <<data, particles, activeCount, spawnAcc, foamDraw, fireVars,
                 scene, turn, contact, rng, frames, emission, spline, others>>

\* faulty stop(): clears the pool instead of letting the particles drain
StopClearing ==
  /\ toggles < MaxToggles
  /\ emitting' = FALSE
  /\ particles' = [i \in 1..Len(particles) |-> [particles[i] EXCEPT !.active = FALSE]]
  /\ activeCount' = 0
  /\ toggles' = toggles + 1
  /\ lastOp' = Op("stop", 0, 0, 0, 0, FALSE, 0)
  /\ UNCHANGED <<data, spawnAcc, foamDraw, fireVars,
                 scene, turn, contact, rng, frames, emission, spline, others>>

\* foam-system stop()
Stop ==
  /\ toggles < MaxToggles
  /\ emitting' = FALSE
  /\ toggles' = toggles + 1
  /\ lastOp' = Op("stop", 0, 0, 0, 0, FALSE, 0)
  /\ UNCHANGED <<data, particles, activeCount, spawnAcc, foamDraw, fireVars,
                 scene, turn, contact, rng, frames, emission, spline, others>>

\* the scene calls tick(time, delta) of every component once per frame, in a
\* fixed order and with the same delta: the deltas `who` may be ticked with
FrameDeltas(who) ==
  IF turn.who # who \/ frames >= scene.cap
  THEN {}
  ELSE IF turn.delta < 0 THEN scene.deltas ELSE {turn.delta}

\* the turn after `who` has ticked with delta
NextTurn(who, delta) ==
  IF turn.delta < 0
  THEN [who |-> IF who = "foam" THEN "fire" ELSE "foam", delta |-> delta]
  ELSE [who |-> scene.first, delta |-> -1]

FrameDone == turn.delta >= 0

\* foam-system tick(time, delta)
FoamTick ==
  /\ \E delta \in FrameDeltas("foam") :
       LET dt  == ClampDt(delta)
           sp  == IF emitting
                  THEN FoamSpawn(particles, spawnAcc, data, dt, scene.pose.origin,
                                 scene.pose.dir, rng)
                  ELSE [parts |-> particles, acc |-> spawnAcc, req |-> 0,
                        spawned |-> 0, gotNull |-> FALSE]
           sim == Simulate(sp.parts, data, dt, rng)
       IN /\ particles' = sim
          /\ spawnAcc' = sp.acc
          /\ activeCount' = activeCount + sp.spawned - Expired(sp.parts, sim)
          /\ foamDraw' = UpdateGeometry(sim)
          /\ lastOp' = Op("foamTick", dt, sp.req,
                          Len(particles) - Cardinality(ActiveSlots(particles)),
                          sp.spawned, sp.gotNull, 0)
          /\ turn' = NextTurn("foam", delta)
          /\ emission' = [emission EXCEPT
                            !.foam = IF emitting
                                     THEN NextRun(emission.foam, data.rate, dt, sp.req)
                                     ELSE FreshRun]
  /\ frames' = IF FrameDone THEN frames + 1 ELSE frames
  /\ rng' = NextRng(rng)
  /\ UNCHANGED <<data, emitting, fireVars, scene, toggles, contact, spline, others>>

\* the run of consecutive fire ticks, all with the same dt > 0, that found
\* more than 5 foam particles in range (any), and the run of those in which
\* the foam system was also emitting (emit); both stop counting at RunCap
NextContact(dt) ==
  IF dt > 0 /\ FoamHitCount(particles, FirePos) > 5
  THEN LET same == contact.dt = dt
           on   == scene.present /\ emitting
       IN [dt |-> dt,
           any |-> IF same THEN Min(contact.any + 1, RunCap) ELSE 1,
           emit |-> IF ~on THEN 0 ELSE IF same THEN Min(contact.emit + 1, RunCap) ELSE 1]
  ELSE [dt |-> 0, any |-> 0, emit |-> 0]

\* faulty tick(): the systems are updated with the fireIntensity of before the
\* suppression check
FireTickStaleIntensity ==
  /\ \E delta \in FrameDeltas("fire") :
       LET dt == ClampDt(delta)
           fi == CheckFoamSuppression(fireIntensity, scene.present, emitting,
                                      particles, FirePos, dt)
       IN /\ fireIntensity' = fi
          /\ systems' = [s \in 1..Len(systems) |->
                           TickSystem(systems[s], fireData, fireIntensity, FirePos,
                                      CameraPos,
                                      dt, rng + s)]
          /\ lastOp' = Op("fireTick", dt, 0, 0, 0, FALSE,
                          FoamHitCount(particles, FirePos))
          /\ contact' = NextContact(dt)
          /\ turn' = NextTurn("fire", delta)
          /\ emission' = [emission EXCEPT
                            !.sys = [s \in 1..Len(systems) |->
                                       NextEmission(emission.sys[s], systems[s],
                                                    systems'[s], fi, dt)]]
  /\ frames' = IF FrameDone THEN frames + 1 ELSE frames
  /\ rng' = NextRng(rng)
  /\ UNCHANGED <<data, emitting, particles, activeCount, spawnAcc, foamDraw,
                 fireData, scene, toggles, spline, others>>

\* faulty tick(): a suppression step uses up the foam that is in range
FireTickConsumingFoam ==
  /\ \E delta \in FrameDeltas("fire") :
       LET dt == ClampDt(delta)
           fi == CheckFoamSuppression(fireIntensity, scene.present, emitting,
                                      particles, FirePos, dt)
       IN /\ fireIntensity' = fi
          /\ systems' = [s \in 1..Len(systems) |->
                           TickSystem(systems[s], fireData, fi, FirePos, CameraPos,
                                      dt, rng + s)]
          /\ lastOp' = Op("fireTick", dt, 0, 0, 0, FALSE,
                          FoamHitCount(particles, FirePos))
          /\ contact' = NextContact(dt)
          /\ turn' = NextTurn("fire", delta)
          /\ emission' = [emission EXCEPT
                            !.sys = [s \in 1..Len(systems) |->
                                       NextEmission(emission.sys[s], systems[s],
                                                    systems'[s], fi, dt)]]
  /\ frames' = IF FrameDone THEN frames + 1 ELSE frames
  /\ rng' = NextRng(rng)
  /\ particles' = [i \in 1..Len(particles) |->
                     IF /\ FoamHitCount(particles, FirePos) > 5
                        /\ DistSq(particles[i].pos, FirePos) < HitRadius * HitRadius
                     THEN [particles[i] EXCEPT !.active = FALSE]
                     ELSE particles[i]]
  /\ activeCount' = Cardinality(ActiveSlots(particles'))
  /\ UNCHANGED <<data, emitting, spawnAcc, foamDraw, fireData, scene, toggles, spline, others>>

\* fire-system tick(time, delta)
FireTick ==
  /\ \E delta \in FrameDeltas("fire") :
       LET dt == ClampDt(delta)
           fi == CheckFoamSuppression(fireIntensity, scene.present, emitting,
                                      particles, FirePos, dt)
       IN /\ fireIntensity' = fi
          /\ systems' = [s \in 1..Len(systems) |->
                           TickSystem(systems[s], fireData, fi, FirePos, CameraPos,
                                      dt, rng + s)]
          /\ lastOp' = Op("fireTick", dt, 0, 0, 0, FALSE,
                          FoamHitCount(particles, FirePos))
          /\ contact' = NextContact(dt)
          /\ turn' = NextTurn("fire", delta)
          /\ emission' = [emission EXCEPT
                            !.sys = [s \in 1..Len(systems) |->
                                       NextEmission(emission.sys[s], systems[s],
                                                    systems'[s], fi, dt)]]
  /\ frames' = IF FrameDone THEN frames + 1 ELSE frames
  /\ rng' = NextRng(rng)
  /\ UNCHANGED <<data, emitting, particles, activeCount, spawnAcc, foamDraw,
                 fireData, scene, toggles, spline, others>>

Next == Start \/ Stop \/ FoamTick \/ FireTick

Spec == Init /\ [][Next]_vars

\* the sustained-contact scene: the nozzle sprays from the start and the only
\* call made is one stop()
InitSustained == InitWith({SustainScene}, {0})

NextSustained == (emitting /\ Stop) \/ FoamTick \/ FireTick

SpecSustained == InitSustained /\ [][NextSustained]_vars

\* the sustained-contact scene with the ceiling smoke enabled, every frame
\* ticked: the scene calls tick() of both components in each frame until
\* the run ends
ExtinguishScene ==
  [SustainScene EXCEPT !.fire = [SustainScene.fire EXCEPT !.enableCeiling = TRUE],
                       !.cap = ExtinguishFrames]

\* a component is ticked: the turn passes on
Ticking ==
  /\ frames < scene.cap
  /\ \E w \in {"foam", "fire"}, d \in scene.deltas \cup {-1} :
       turn' = [who |-> w, delta |-> d] /\ turn' # turn

InitExtinguish == InitWith({ExtinguishScene}, {0})

NextExtinguish == FoamTick \/ FireTick

SpecExtinguish ==
  InitExtinguish /\ [][NextExtinguish]_vars /\ WF_turn(Ticking)

\* a scalar spline on its own: control points are added in non-decreasing t,
\* as every caller does, and the spline is evaluated at any t
SplineTimes == {0, 300, 600, 1000}

SplineValues == {0, 400, 1000}

EvalTimes == {-200, 0, 150, 300, 450, 600, 1000, 1200}

\* spline.addPoint(t, d)
AddPoint ==
  /\ Len(spline.points) < MaxPoints
  /\ \E t \in SplineTimes, d \in SplineValues :
       /\ IF spline.points = <<>> THEN TRUE
          ELSE spline.points[Len(spline.points)][1] <= t
       /\ spline' = [FreshSpline EXCEPT !.points = AddPointTo(spline.points, t, d)]
  /\ UNCHANGED <<data, emitting, particles, activeCount, spawnAcc, foamDraw,
                 fireVars, scene, turn, toggles, contact, rng, frames, lastOp,
                 emission, others>>

\* spline.getValueAt(t)
Evaluate ==
  /\ spline.points # <<>>
  /\ spline.calls = 0
  /\ \E t \in EvalTimes :
       spline' = [spline EXCEPT
                    !.t = t,
                    !.value = GetValueAt(spline.points, t, "scalar"),
                    !.nan = SplineNaN(spline.points, t),
                    !.calls = 1]
  /\ UNCHANGED <<data, emitting, particles, activeCount, spawnAcc, foamDraw,
                 fireVars, scene, turn, toggles, contact, rng, frames, lastOp,
                 emission, others>>

NextSpline == AddPoint \/ Evaluate

SpecSpline == InitSustained /\ [][NextSpline]_vars

\* cold start: the schema defaults, a foam-system that is never started, and
\* frames of 1/60 s, which lie between 16 and 17 ms
ColdScenes ==
  { SceneOf(FoamDefaults, FireDefaults, TRUE, PoseHigh, {delta}, first, ColdFrames) :
      delta \in {16, 17}, first \in {"foam", "fire"} }

InitCold == InitWith(ColdScenes, Seeds)

NextCold == FoamTick \/ FireTick

SpecCold == InitCold /\ [][NextCold]_vars

\* fires that fill their lists, with a foam-system that is never started:
\* short lives at a high rate with room to spare in the 64 slots, and
\* shorter lives at a higher rate, where one frame asks for more than 64
TightFire == [FireDefaults EXCEPT !.fireRate = 400, !.maxLife = 100, !.smokeMaxLife = 200]

BurstFire ==
  [FireDefaults EXCEPT !.fireRate = 1400, !.maxLife = 20, !.smokeMaxLife = 200,
                       !.enableCeiling = FALSE]

CapacityScenes ==
  { SceneOf(FoamDefaults, fire, TRUE, PoseHigh, {delta}, "fire", CapacityFrames) :
      fire \in {TightFire, BurstFire}, delta \in {30, 70} }

InitCapacity == InitWith(CapacityScenes, {0})

SpecCapacity == InitCapacity /\ [][NextCold]_vars

(* ───────────── extinguisher-controller ───────────── *)

\* what a handler leaves behind: the controller and the foam-system's
\* emitting flag
Handled(c, em) == [c |-> c, emitting |-> em]

\* _startSpray(); found: #foam-nozzle carries a foam-system
StartSpray(c, found, em) ==
  Handled([c EXCEPT !.isSpraying = TRUE], IF found THEN TRUE ELSE em)

\* _stopSpray()
StopSpray(c, found, em) ==
  Handled([c EXCEPT !.isSpraying = FALSE], IF found THEN FALSE ELSE em)

\* faulty _release(): clears isSpraying itself instead of calling _stopSpray()
ReleaseDroppingFlag(c, found, em) ==
  Handled([c EXCEPT !.isHeld = FALSE, !.isSpraying = FALSE], em)

\* _release()
Release(c, found, em) ==
  IF c.isSpraying
  THEN StopSpray([c EXCEPT !.isHeld = FALSE], found, em)
  ELSE Handled([c EXCEPT !.isHeld = FALSE], em)

\* faulty _onGripDown(): a second press releases (the toggle its comment
\* describes)
OnGripDownToggling(c, aimed) ==
  IF ~c.enabled
  THEN c
  ELSE IF c.isHeld
       THEN [c EXCEPT !.isHeld = FALSE]
       ELSE IF ~aimed THEN c ELSE [c EXCEPT !.isHeld = TRUE]

\* _onGripDown(); aimed: the raycaster hits the extinguisher
OnGripDown(c, aimed) ==
  IF ~c.enabled \/ c.isHeld \/ ~aimed THEN c ELSE [c EXCEPT !.isHeld = TRUE]

\* faulty _onTriggerDown(): does not look at the seal
OnTriggerDownUnsealed(c, found, em) ==
  IF ~c.isHeld \/ ~c.enabled THEN Handled(c, em) ELSE StartSpray(c, found, em)

\* _onTriggerDown()
OnTriggerDown(c, found, em) ==
  IF ~c.isHeld \/ ~c.enabled
  THEN Handled(c, em)
  ELSE IF c.requireSeal /\ ~c.sealRemoved
       THEN Handled(c, em)
       ELSE StartSpray(c, found, em)

\* _onTriggerUp()
OnTriggerUp(c, found, em) ==
  IF ~c.isSpraying THEN Handled(c, em) ELSE StopSpray(c, found, em)

\* _onSealButton() and _removeSeal(): starts the 300 ms timer
OnSealButton(c) ==
  IF ~c.isHeld \/ ~c.enabled \/ c.sealRemoved
  THEN c
  ELSE [c EXCEPT !.sealTimers = c.sealTimers + 1]

\* setEnabled(enabled)
SetEnabledTo(c, enabled, found, em) ==
  LET c1 == [c EXCEPT !.enabled = enabled]
  IN IF ~enabled /\ c.isHeld THEN Release(c1, found, em) ELSE Handled(c1, em)

\* the variables no controller handler touches
particleVars == <<data, particles, activeCount, spawnAcc, foamDraw, fireVars,
                  scene, turn, toggles, contact, rng, frames, emission, spline,
                  torn, burn, training, hud, panels, move>>

\* one more event handled
Counted(c) == [c EXCEPT !.events = c.events + 1]

\* gripdown on the grip hand's controller
GripDown ==
  /\ ctrl.events < MaxEvents
  /\ \E aimed \in BOOLEAN :
       ctrl' = [Counted(OnGripDown(ctrl, aimed))
                  EXCEPT !.regripped = @ \/ (ctrl.isHeld /\ ctrl.enabled)]
  /\ lastOp' = Op("gripdown", 0, 0, 0, 0, FALSE, 0)
  /\ UNCHANGED <<emitting, particleVars>>

\* triggerdown on either controller
TriggerDown ==
  /\ ctrl.events < MaxEvents
  /\ LET h == OnTriggerDown(ctrl, scene.present, emitting)
     IN ctrl' = Counted(h.c) /\ emitting' = h.emitting
  /\ lastOp' = Op("triggerdown", 0, 0, 0, 0, FALSE, 0)
  /\ UNCHANGED particleVars

\* triggerup on either controller
TriggerUp ==
  /\ ctrl.events < MaxEvents
  /\ LET h == OnTriggerUp(ctrl, scene.present, emitting)
     IN ctrl' = Counted(h.c) /\ emitting' = h.emitting
  /\ lastOp' = Op("triggerup", 0, 0, 0, 0, FALSE, 0)
  /\ UNCHANGED particleVars

\* abuttondown / xbuttondown
SealButton ==
  /\ ctrl.events < MaxEvents
  /\ ctrl' = Counted(OnSealButton(ctrl))
  /\ lastOp' = Op("sealbutton", 0, 0, 0, 0, FALSE, 0)
  /\ UNCHANGED <<emitting, particleVars>>

\* the setTimeout callback of _removeSeal(): sets the flag and emits
\* extinguisher-seal-removed
SealTimeout ==
  /\ ctrl.sealTimers > 0
  /\ ctrl' = [ctrl EXCEPT !.sealRemoved = TRUE, !.sealTimers = ctrl.sealTimers - 1,
                          !.sealEmits = ctrl.sealEmits + 1]
  /\ lastOp' = Op("sealtimeout", 0, 0, 0, 0, FALSE, 0)
  /\ UNCHANGED <<emitting, particleVars>>

\* a call of setEnabled
SetEnabled ==
  /\ ctrl.events < MaxEvents
  /\ \E enabled \in BOOLEAN :
       LET h == SetEnabledTo(ctrl, enabled, scene.present, emitting)
       IN ctrl' = Counted(h.c) /\ emitting' = h.emitting
  /\ lastOp' = Op("setEnabled", 0, 0, 0, 0, FALSE, 0)
  /\ UNCHANGED particleVars

\* the nozzle in the trainee's hand, and a scene whose #foam-nozzle carries
\* no foam-system; frames of 50 ms
ControllerScenes ==
  { SceneOf(FoamDefaults, QuickFire, present, PoseHigh, {50}, "foam", MaxFrames) :
      present \in BOOLEAN }

InitController ==
  /\ InitParticles(ControllerScenes, {0})
  /\ \E enabled \in BOOLEAN, requireSeal \in BOOLEAN :
       ctrl = FreshController(enabled, requireSeal)
  /\ InitOthers("ctrl")

NextController ==
  \/ GripDown \/ TriggerDown \/ TriggerUp \/ SealButton \/ SealTimeout \/ SetEnabled
  \/ FoamTick \/ FireTick

SpecController == InitController /\ [][NextController]_vars

(* ───────────── teardown ───────────── *)

\* remove() of the foam-system
FoamRemove ==
  /\ torn.foamCalls < MaxRemoves
  /\ torn' = RemoveFoam(torn)
  /\ lastOp' = Op("foamRemove", 0, 0, 0, 0, FALSE, 0)
  /\ UNCHANGED <<data, emitting, particles, activeCount, spawnAcc, foamDraw,
                 fireVars, scene, turn, toggles, contact, rng, frames, emission,
                 spline, ctrl, burn, training, hud, panels, move>>

\* remove() of the fire-system
FireRemove ==
  /\ torn.fireCalls < MaxRemoves
  /\ torn' = RemoveFire(torn)
  /\ lastOp' = Op("fireRemove", 0, 0, 0, 0, FALSE, 0)
  /\ UNCHANGED <<data, emitting, particles, activeCount, spawnAcc, foamDraw,
                 fireVars, scene, turn, toggles, contact, rng, frames, emission,
                 spline, ctrl, burn, training, hud, panels, move>>

\* the scene runs until it is taken down; a component that has been removed
\* is not ticked any more
Running == torn.foamCalls = 0 /\ torn.fireCalls = 0

NextTeardown ==
  \/ Running /\ Start
  \/ Running /\ FoamTick
  \/ Running /\ FireTick
  \/ FoamRemove
  \/ FireRemove

SpecTeardown == InitWith(Scenes, {0}) /\ [][NextTeardown]_vars

(* ───────────── burn-effect ───────────── *)

\* faulty burn step: no Math.min(1, ...)
BurnStepUnclamped(b, intensity, timeDelta) ==
  IF intensity > b.data.minIntensity
  THEN b.burnAmount + timeDelta * b.data.burnRate
  ELSE b.burnAmount

\* the burnAmount after the first statement of tick(): it grows by
\* timeDelta / 1000 * burnRate while fireIntensity is above minIntensity
BurnStep(b, intensity, timeDelta) ==
  IF intensity > b.data.minIntensity
  THEN Min(BurnScale, b.burnAmount + timeDelta * b.data.burnRate)
  ELSE b.burnAmount

\* tick(_time, timeDelta) of burn-effect: nothing without a fire-system on
\* the parent; the materials are darkened once 100 ms have accumulated
BurnTicked(b, intensity, timeDelta) ==
  IF ~b.data.hasFire
  THEN [b EXCEPT !.ticks = b.ticks + 1, !.grew = FALSE]
  ELSE LET amount == BurnStep(b, intensity, timeDelta)
           accum  == b.accumTime + timeDelta
       IN [b EXCEPT
             !.burnAmount = amount,
             !.accumTime = IF accum < 100 THEN accum ELSE 0,
             !.darkness = IF accum < 100
                          THEN b.darkness
                          ELSE (amount * b.data.maxDarkness) \div 1000,
             !.ticks = b.ticks + 1,
             !.grew = amount > b.burnAmount]

\* the burn-effect is ticked once per frame with the frame's delta, between
\* the two particle systems: this is its turn
BurnTurn == turn.delta >= 0 /\ burn.ticks = frames

\* burn-effect tick(_time, timeDelta)
BurnTick ==
  /\ BurnTurn
  /\ burn' = BurnTicked(burn, fireIntensity, turn.delta)
  /\ lastOp' = Op("burnTick", turn.delta, 0, 0, 0, FALSE, 0)
  /\ UNCHANGED <<data, emitting, particles, activeCount, spawnAcc, foamDraw,
                 fireVars, scene, turn, toggles, contact, rng, frames, emission,
                 spline, ctrl, torn, training, hud, panels, move>>

\* a slow effect with the schema defaults, a fast one that stops at 0.99
\* fireIntensity, and an entity whose parent has no fire-system
BurnConfigs ==
  { BurnDefaults,
    [BurnDefaults EXCEPT !.burnRate = 8000, !.minIntensity = 990],
    [BurnDefaults EXCEPT !.hasFire = FALSE] }

InitBurn ==
  /\ InitParticles(Scenes, {0})
  /\ burn \in {FreshBurn(d) : d \in BurnConfigs}
  /\ InitOthers("burn")

NextBurn ==
  \/ Start
  \/ Stop
  \/ BurnTick
  \/ ~BurnTurn /\ FoamTick
  \/ ~BurnTurn /\ FireTick

SpecBurn == InitBurn /\ [][NextBurn]_vars

(* ───────────── training-state ───────────── *)

\* the events of the default configuration in the order of its states, the
\* script of a training session
Script == <<"start", "proceed", "ready", "fire_out", "done">>

\* what the calls made so far amount to, after one more call: "script" while
\* they are next() calls handing over the script's events in turn, and any
\* events once the script is through
RunAfter(t, op, arg) ==
  IF op = "next" /\ t.run \in {"none", "script"}
     /\ (t.steps < Len(Script) => arg = Script[t.steps + 1])
  THEN "script"
  ELSE IF op = "forward" /\ t.run \in {"none", "forward"}
       THEN "forward"
       ELSE "mixed"

\* what a call leaves: the state _enter() was called with (the current one
\* if it was not called), the boolean result, and the training-state-enter
\* events _enter() emitted, each with the new and the previous state
Went(t, state, ok) ==
  [state |-> state, ok |-> ok,
   events |-> IF ok THEN <<[state |-> state, prev |-> t.current]>> ELSE <<>>]

\* bookkeeping of a call that went as w tells
Called(t, op, arg, w) ==
  [t EXCEPT !.current = w.state,
            !.run = RunAfter(t, op, arg),
            !.steps = t.steps + 1,
            !.last = [op |-> op, arg |-> arg, from |-> t.current, moved |-> w.ok,
                      events |-> w.events]]

\* faulty _advance: in a state without an `on` table any event starts over
AdvanceRestarting(t, eventName) ==
  IF \E tr \in Transitions : tr[1] = t.current /\ tr[2] = eventName
  THEN Went(t, (CHOOSE tr \in Transitions : tr[1] = t.current /\ tr[2] = eventName)[3],
            TRUE)
  ELSE IF \E tr \in Transitions : tr[1] = t.current
       THEN Went(t, t.current, FALSE)
       ELSE Went(t, StateKeys[1], TRUE)

\* _advance(eventName)
Advance(t, eventName) ==
  IF \E tr \in Transitions : tr[1] = t.current /\ tr[2] = eventName
  THEN Went(t, (CHOOSE tr \in Transitions : tr[1] = t.current /\ tr[2] = eventName)[3],
            TRUE)
  ELSE Went(t, t.current, FALSE)

\* _forward()
Forward(t) ==
  IF IndexOf(t.current) < Len(StateKeys)
  THEN Went(t, StateKeys[IndexOf(t.current) + 1], TRUE)
  ELSE Went(t, t.current, FALSE)

\* _back()
Back(t) ==
  IF IndexOf(t.current) > 1
  THEN Went(t, StateKeys[IndexOf(t.current) - 1], TRUE)
  ELSE Went(t, t.current, FALSE)

\* _goTo(state)
GoTo(t, state) ==
  IF IsState(state) THEN Went(t, state, TRUE) ELSE Went(t, t.current, FALSE)

\* _reset()
Reset(t) ==
  IF IsState(t.initial) THEN Went(t, t.initial, TRUE) ELSE Went(t, t.current, FALSE)

\* the variables the training-state API leaves alone
besideTraining == <<data, emitting, particles, activeCount, spawnAcc, foamDraw,
                    fireVars, scene, turn, toggles, contact, rng, frames, lastOp,
                    emission, spline, ctrl, torn, burn, hud, panels, move>>

\* event names handed to next(): those of the configuration and an unknown one
EventNames == {Script[k] : k \in 1..Len(Script)} \cup {"abort"}

\* trainingState.next(event)
CallNext ==
  /\ training.steps < MaxCalls
  /\ \E e \in EventNames :
       training' = Called(training, "next", e, Advance(training, e))
  /\ UNCHANGED besideTraining

\* trainingState.forward()
CallForward ==
  /\ training.steps < MaxCalls
  /\ training' = Called(training, "forward", "", Forward(training))
  /\ UNCHANGED besideTraining

\* trainingState.back()
CallBack ==
  /\ training.steps < MaxCalls
  /\ training' = Called(training, "back", "", Back(training))
  /\ UNCHANGED besideTraining

\* trainingState.goTo(state)
CallGoTo ==
  /\ training.steps < MaxCalls
  /\ \E st \in {"suppress", "done", "nowhere", "constructor"} :
       training' = Called(training, "goTo", st, GoTo(training, st))
  /\ UNCHANGED besideTraining

\* trainingState.reset()
CallReset ==
  /\ training.steps < MaxCalls
  /\ training' = Called(training, "reset", "", Reset(training))
  /\ UNCHANGED besideTraining

\* the default configuration, with the default initial state and with one
\* that the configuration does not have
InitTraining ==
  /\ InitParticles({SustainScene}, {0})
  /\ training \in {FreshTraining(initial) : initial \in {"intro", "nowhere"}}
  /\ InitOthers("training")

NextTraining == CallNext \/ CallForward \/ CallBack \/ CallGoTo \/ CallReset

SpecTraining == InitTraining /\ [][NextTraining]_vars

(* ───────────── tutorial-hud ───────────── *)

\* _displayMessage(text, duration): nothing without a text element;
\* otherwise the text is written, the HUD shown and the timer started
DisplayMessage(h, text) ==
  IF ~h.hasCamera
  THEN h
  ELSE [h EXCEPT !.value = text, !.visible = TRUE, !.timer = TRUE,
                 !.displayed = Append(h.displayed, text)]

\* faulty _processQueue: takes the newest message (pop) instead of the oldest
ProcessQueueNewest(h) ==
  IF h.currentMessage # <<>> \/ h.messages = <<>>
  THEN h
  ELSE DisplayMessage(
         [h EXCEPT !.currentMessage = <<h.messages[Len(h.messages)]>>,
                   !.messages = SubSeq(h.messages, 1, Len(h.messages) - 1)],
         h.messages[Len(h.messages)])

\* _processQueue()
ProcessQueue(h) ==
  IF h.currentMessage # <<>> \/ h.messages = <<>>
  THEN h
  ELSE DisplayMessage(
         [h EXCEPT !.currentMessage = <<Head(h.messages)>>,
                   !.messages = Tail(h.messages)],
         Head(h.messages))

\* show(message, duration)
Show(h, message) ==
  LET pushed == [h EXCEPT !.messages = Append(h.messages, message),
                          !.queued = Append(h.queued, message)]
      done   == ProcessQueue(pushed)
  IN [done EXCEPT !.waited = Max(h.waited, Len(done.messages))]

\* the setTimeout callback of _displayMessage
TimedOut(h) ==
  ProcessQueue([h EXCEPT !.visible = FALSE, !.currentMessage = <<>>, !.timer = FALSE])

\* the variables the tutorial HUD leaves alone
besideHud == <<data, emitting, particles, activeCount, spawnAcc, foamDraw,
               fireVars, scene, turn, toggles, contact, rng, frames, lastOp,
               emission, spline, ctrl, torn, burn, training, panels, move>>

\* texts handed to show()
Texts == {"aim", "squeeze"}

\* hud.show(message, duration)
ShowMessage ==
  /\ ~hud.removed
  /\ Len(hud.queued) < MaxMessages
  /\ \E message \in Texts : hud' = Show(hud, message)
  /\ UNCHANGED besideHud

\* the message's duration has passed
TimerFires ==
  /\ hud.timer
  /\ hud' = TimedOut(hud)
  /\ UNCHANGED besideHud

\* remove() of tutorial-hud: clearTimeout, the HUD leaves the camera
RemoveHud ==
  /\ ~hud.removed
  /\ hud' = [hud EXCEPT !.timer = FALSE, !.removed = TRUE]
  /\ UNCHANGED besideHud

InitHud ==
  /\ InitParticles({SustainScene}, {0})
  /\ hud \in {FreshHud(hasCamera) : hasCamera \in BOOLEAN}
  /\ InitOthers("hud")

NextHud == ShowMessage \/ TimerFires \/ RemoveHud

\* a timer that was started fires unless it is cleared
SpecHud == InitHud /\ [][NextHud]_vars /\ WF_vars(TimerFires)

(* ───────────── interactive-panels and training-manager ───────────── *)

\* the panels _setupPanels defines
PanelIds == {"intro", "movement_select"}

\* clearPanel()
ClearPanel(p) == [p EXCEPT !.currentPanel = "none"]

\* lockMovement(): the component's own flag
LockMovement(p) == [p EXCEPT !.isLocked = TRUE]

\* unlockMovement(): the component's own flag
UnlockMovement(p) == [p EXCEPT !.isLocked = FALSE]

\* what lockMovement and unlockMovement do to the movement controller:
\* setAttribute("movement-controller", "enabled: ...") replaces data.enabled
MoveAttribute(m, enabled) == [m EXCEPT !.enabled = enabled]

\* showPanel(panelId, callbacks), with a #camera to append the panel to
ShowPanel(p, panelId, callbacks) ==
  IF panelId \notin PanelIds
  THEN p
  ELSE [LockMovement(ClearPanel([p EXCEPT !.callbacks = callbacks]))
          EXCEPT !.currentPanel = panelId]

\* showIntroPanel() of the training manager
ShowIntroPanel(p) == ShowPanel(p, "intro", {"toMovement"})

\* startMainTraining(): clear, unlock, and a timer that will show the first
\* HUD message
StartMainTraining(p) ==
  [UnlockMovement(ClearPanel(p)) EXCEPT !.hudTimers = @ + 1]

\* _startDevMode()
StartDevMode(p) == UnlockMovement(p)

\* trainingDev.hidePanel()
HidePanel(p) == UnlockMovement(ClearPanel(p))

\* a call recorded
PanelCall(p, op) == [p EXCEPT !.calls = @ + 1, !.last = op]

\* the variables the panels and the training manager leave alone
besidePanels == <<data, emitting, particles, activeCount, spawnAcc, foamDraw,
                  fireVars, scene, turn, toggles, contact, rng, frames, lastOp,
                  emission, spline, ctrl, torn, burn, training>>

\* the timer set on the scene's loaded event: _startDevMode in dev mode,
\* startTraining otherwise
LoadedTimer ==
  /\ ~panels.started
  /\ panels' = [(IF panels.devMode THEN StartDevMode(panels)
                                    ELSE ShowIntroPanel(panels))
                  EXCEPT !.started = TRUE, !.last = "loaded"]
  /\ move' = MoveAttribute(move, panels.devMode)
  /\ UNCHANGED <<besidePanels, hud>>

\* trainingDev.showPanel()
DevShowPanel ==
  /\ panels.calls < MaxPanelCalls
  /\ panels' = PanelCall(ShowIntroPanel(panels), "showPanel")
  /\ move' = MoveAttribute(move, FALSE)
  /\ UNCHANGED <<besidePanels, hud>>

\* trainingDev.hidePanel()
DevHidePanel ==
  /\ panels.calls < MaxPanelCalls
  /\ panels' = PanelCall(HidePanel(panels), "hidePanel")
  /\ move' = MoveAttribute(move, TRUE)
  /\ UNCHANGED <<besidePanels, hud>>

\* a controller click on the panel's button: _handleClick runs the
\* callback registered for its action, here toMovement
ClickToMovement ==
  /\ panels.currentPanel # "none"
  /\ "toMovement" \in panels.callbacks
  /\ panels' = PanelCall(StartMainTraining(panels), "toMovement")
  /\ move' = MoveAttribute(move, TRUE)
  /\ UNCHANGED <<besidePanels, hud>>

\* the timer of startMainTraining: the first HUD message
IntroMessage ==
  /\ panels.hudTimers > 0
  /\ panels' = [panels EXCEPT !.hudTimers = @ - 1]
  /\ hud' = Show(hud, "grab")
  /\ UNCHANGED <<besidePanels, move>>

InitPanels ==
  /\ InitParticles({SustainScene}, {0})
  /\ panels \in {FreshPanels(devMode) : devMode \in BOOLEAN}
  /\ InitOthers("panels")

NextPanels ==
  \/ LoadedTimer
  \/ DevShowPanel
  \/ DevHidePanel
  \/ ClickToMovement
  \/ IntroMessage
  \/ TimerFires

SpecPanels == InitPanels /\ [][NextPanels]_vars

(* ───────────── movement-controller ───────────── *)

\* setMode(newMode)
MoveSetMode(m, newMode) ==
  IF newMode \notin {"analog", "teleport"}
  THEN m
  ELSE [m EXCEPT !.mode = newMode, !.dataMode = newMode, !.emits = @ + 1,
                 !.teleport = IF m.hasLeft
                              THEN newMode = "teleport" /\ m.enabled
                              ELSE m.teleport]

\* setEnabled(enabled)
MoveSetEnabled(m, enabled) ==
  [m EXCEPT !.enabled = enabled,
            !.teleport = IF m.hasLeft
                         THEN enabled /\ m.mode = "teleport"
                         ELSE m.teleport]

\* a call recorded
MoveCall(m, op) == [m EXCEPT !.calls = @ + 1, !.last = op]

\* the variables the movement controller leaves alone
besideMove == <<data, emitting, particles, activeCount, spawnAcc, foamDraw,
                fireVars, scene, turn, toggles, contact, rng, frames, lastOp,
                emission, spline, ctrl, torn, burn, training, hud, panels>>

\* a call of setMode, with a valid or an invalid mode
CallSetMode ==
  /\ move.calls < MaxMoveCalls
  /\ \E newMode \in {"analog", "teleport", "fly"} :
       move' = MoveCall(MoveSetMode(move, newMode), "setMode")
  /\ UNCHANGED besideMove

\* a call of setEnabled
CallSetEnabled ==
  /\ move.calls < MaxMoveCalls
  /\ \E enabled \in BOOLEAN :
       move' = MoveCall(MoveSetEnabled(move, enabled), "setEnabled")
  /\ UNCHANGED besideMove

\* the component as the scene may declare it: either mode, enabled or not
\* (the schema default), with or without a left-hand controller
InitMove ==
  /\ InitParticles({SustainScene}, {0})
  /\ move \in {FreshMove(mode, enabled, hasLeft) :
                 mode \in {"analog", "teleport"}, enabled \in BOOLEAN,
                 hasLeft \in BOOLEAN}
  /\ InitOthers("move")

NextMove == CallSetMode \/ CallSetEnabled

SpecMove == InitMove /\ [][NextMove]_vars

(* ───────────── properties ───────────── *)

NumActive(parts) == Cardinality(ActiveSlots(parts))

\* slots a foam tick has taken from inactive to active
NewlyActive == {i \in 1..Len(particles) : ~particles[i].active /\ particles'[i].active}

FoamTicked == lastOp'.op = "foamTick"

FireTicked == lastOp'.op = "fireTick"

\* C1 (state part): no system holds more active particles than its capacity
CapacityInv ==
  /\ NumActive(particles) <= data.maxParticles
  /\ Len(particles) = data.maxParticles
  /\ \A s \in 1..Len(systems) :
       /\ Len(systems[s].particles) <= systems[s].capacity
       /\ Len(systems[s].draw) <= systems[s].capacity

\* C1 (step part): a tick that requests more spawns than there are free slots
\* fills exactly the free slots, and the slot lookup then answered null
ExhaustionStep ==
  /\ FoamTicked =>
       LET free == Len(particles) - NumActive(particles)
       IN /\ Cardinality(NewlyActive) <= free
          /\ Cardinality(NewlyActive) = lastOp'.spawned
          /\ lastOp'.req > free =>
               (Cardinality(NewlyActive) = free /\ lastOp'.gotNull)
          /\ lastOp'.req <= free => lastOp'.spawned = lastOp'.req
  /\ FireTicked =>
       \A s \in 1..Len(systems) :
         LET free == systems[s].capacity - Len(systems[s].particles)
         IN /\ systems'[s].spawned <= free
            /\ systems'[s].pushed = systems[s].pushed + systems'[s].spawned
            /\ systems'[s].req > free => systems'[s].spawned = free
            /\ systems'[s].req <= free => systems'[s].spawned = systems'[s].req

C2_IntensityRange ==
  /\ [](fireIntensity >= 0 /\ fireIntensity <= IScale)
  /\ [][fireIntensity' <= fireIntensity]_vars

\* a fire tick has lowered the intensity below 1.0
C2_Witness == lastOp.op = "fireTick" /\ fireIntensity < IScale /\ fireIntensity > 0

\* fireIntensity - suppressionRate * dt, floored at 0
Suppressed(intensity, dt) == Max(0, intensity - (SuppressionRate * dt) \div 1000)

\* C3 as claimed: every fire tick with more than 5 foam particles in range
\* lowers fireIntensity by suppressionRate * dt, whatever the foam system's state
C3_Original ==
  [][(FireTicked /\ FoamHitCount(particles, FirePos) > 5)
       => fireIntensity' = Suppressed(fireIntensity, lastOp'.dt)]_vars

\* C3 amended: a fire tick with more than 5 foam particles in range lowers
\* fireIntensity by suppressionRate * dt (floored at 0) while the foam system
\* is emitting; after stop() it leaves fireIntensity unchanged
C3_SuppressWhileEmitting ==
  [][(FireTicked /\ FoamHitCount(particles, FirePos) > 5)
       => fireIntensity' = IF scene.present /\ emitting
                           THEN Suppressed(fireIntensity, lastOp'.dt)
                           ELSE fireIntensity]_vars

\* a fire tick with dt > 0 has suppressed the fire of an emitting foam system
C3_Witness ==
  /\ lastOp.op = "fireTick"
  /\ lastOp.hits > 5
  /\ lastOp.dt > 0
  /\ emitting
  /\ fireIntensity < IScale

\* C4: a fire tick with at most 5 foam particles in range leaves fireIntensity
\* unchanged
C4_BelowThreshold ==
  [][(FireTicked /\ FoamHitCount(particles, FirePos) <= 5)
       => fireIntensity' = fireIntensity]_vars

\* a fire tick with dt > 0 saw exactly 5 particles of an emitting foam system
C4_Witness ==
  /\ lastOp.op = "fireTick"
  /\ lastOp.hits = 5
  /\ lastOp.dt > 0
  /\ emitting

\* slots that are active before and after a step, in the same activation
Surviving ==
  {i \in 1..Len(particles) :
     particles[i].active /\ particles'[i].active /\ particles'[i].uses = particles[i].uses}

DrawnSlots == {foamDraw[k].slot : k \in 1..Len(foamDraw)}

Ids(ps) == {ps[k].id : k \in 1..Len(ps)}

\* the record with identifier id in the list ps
ById(ps, id) == ps[CHOOSE k \in 1..Len(ps) : ps[k].id = id]

\* C6 (state part): what geometry sync wrote is exactly the particles with
\* life > 0, and a record with life <= 0 is free for the next spawn
ExpiredNotDrawn ==
  /\ DrawnSlots = ActiveSlots(particles)
  /\ \A i \in 1..Len(particles) :
       (particles[i].uses > 0 /\ particles[i].life <= 0) =>
         /\ ~particles[i].active
         /\ i \notin DrawnSlots
         /\ GetSlot(particles) \in 1..i
  /\ \A s \in 1..Len(systems) :
       /\ Ids(systems[s].draw) = Ids(systems[s].particles)
       /\ \A k \in 1..Len(systems[s].particles) : systems[s].particles[k].life > 0

\* C6 (step part): a tick with dt > 0 lowers the life of every particle that
\* was active; a fire/smoke particle that is gone has left list and buffer
LifeDecreases ==
  /\ (FoamTicked /\ lastOp'.dt > 0) =>
       \A i \in 1..Len(particles) :
         particles[i].active =>
           /\ particles'[i].life < particles[i].life
           /\ particles'[i].life = particles[i].life - lastOp'.dt
  /\ (FireTicked /\ lastOp'.dt > 0) =>
       \A s \in 1..Len(systems) :
         \A k \in 1..Len(systems[s].particles) :
           LET p == systems[s].particles[k]
           IN IF p.id \in Ids(systems'[s].particles)
              THEN ById(systems'[s].particles, p.id).life < p.life
              ELSE /\ p.id \notin Ids(systems'[s].draw)
                   /\ Len(systems'[s].particles) < systems'[s].capacity

\* C6: in every tick with dt > 0 the life of every active particle strictly
\* decreases; a particle whose life reaches <= 0 is not written by that tick's
\* geometry sync and its slot can be taken by the next spawn
C6_LifeMonotone == []ExpiredNotDrawn /\ [][LifeDecreases]_vars

\* a foam slot has expired and been taken again, and a fire particle is gone
C6_Witness ==
  /\ \E i \in 1..Len(particles) : particles[i].active /\ particles[i].uses >= 2
  /\ \E i \in 1..Len(particles) : particles[i].branch = "expired"
  /\ \E s \in 1..Len(systems) : Len(systems[s].particles) < systems[s].pushed

\* C7: every particle is inactive, or active with 0 < life <= maxLife; the age
\* of every particle written to the buffers is in [0, 1]
C7_LifeBounds ==
  /\ \A i \in 1..Len(particles) :
       particles[i].active =>
         (particles[i].life > 0 /\ particles[i].life <= particles[i].maxLife)
  /\ \A k \in 1..Len(foamDraw) : foamDraw[k].age >= 0 /\ foamDraw[k].age <= 1000
  /\ \A s \in 1..Len(systems) :
       /\ \A k \in 1..Len(systems[s].particles) :
            LET p == systems[s].particles[k]
            IN p.life > 0 /\ p.life <= p.maxLife
       /\ \A k \in 1..Len(systems[s].draw) :
            systems[s].draw[k].age >= 0 /\ systems[s].draw[k].age <= 1000

\* the buffers hold aged foam particles and fire particles past half their life
C7_Witness ==
  /\ \E k \in 1..Len(foamDraw) : foamDraw[k].age > 0 /\ foamDraw[k].age < 1000
  /\ \E i \in 1..Len(particles) :
       particles[i].active /\ particles[i].life < particles[i].maxLife
  /\ \E s \in 1..Len(systems) :
       \E k \in 1..Len(systems[s].draw) : systems[s].draw[k].age > 500

\* C8: a grounded active foam particle stays grounded until it becomes
\* inactive, and every later tick applies the ground branch to it
C8_GroundedStays ==
  [][\A i \in Surviving :
       particles[i].grounded =>
         /\ particles'[i].grounded
         /\ particles'[i].flips = particles[i].flips
         /\ FoamTicked => particles'[i].branch = "ground"]_vars

\* a particle that grounded in an earlier tick has been simulated on the ground
C8_Witness ==
  \E i \in 1..Len(particles) :
    /\ particles[i].active
    /\ particles[i].grounded
    /\ particles[i].branch = "ground"
    /\ particles[i].groundTime > 0

\* the slots whose particle became grounded in this step
Grounding ==
  {i \in 1..Len(particles) :
     /\ particles'[i].active
     /\ particles'[i].grounded
     /\ ~(i \in Surviving /\ particles[i].grounded)}

GroundingStep ==
  \A i \in Grounding :
    /\ FoamTicked
    /\ particles'[i].branch = "air"
    /\ particles'[i].flips = 1
    /\ \/ particles'[i].yPre > data.floorY
       \/ /\ i \in NewlyActive
          /\ scene.pose.origin.y <= data.floorY
          /\ particles'[i].yPre = scene.pose.origin.y

C10_Pinned ==
  /\ [](\A i \in 1..Len(particles) :
          (particles[i].active /\ particles[i].grounded) =>
            particles[i].pos.y = data.floorY + FloorEps)
  /\ [][FoamTicked =>
          \A i \in Surviving :
            particles[i].grounded =>
              /\ particles'[i].vel.y = 0
              /\ Abs(particles'[i].vel.x) <= Abs(particles[i].vel.x)
              /\ Abs(particles'[i].vel.z) <= Abs(particles[i].vel.z)
              /\ particles'[i].pos.y = data.floorY + FloorEps]_vars

\* a grounded particle is sliding: it bounced with velocity.y > 0 when it
\* grounded, and a later tick has set velocity.y to 0 and slowed it down
C10_Witness ==
  \E i \in 1..Len(particles) :
    /\ particles[i].active
    /\ particles[i].grounded
    /\ particles[i].branch = "ground"
    /\ particles[i].vel.y = 0
    /\ particles[i].vel.x # 0 \/ particles[i].vel.z # 0

\* ceil(1 / (suppressionRate * dt)): ticks of dt ms that take 1.0 down to 0
TicksToZero(dt) == (IScale * 1000 + SuppressionRate * dt - 1) \div (SuppressionRate * dt)

\* once fireIntensity is 0 it stays 0 and the fire system requests no spawn
ZeroStays ==
  fireIntensity = 0 =>
    /\ fireIntensity' = 0
    /\ FireTicked =>
         (EffectiveRate(systems'[1], fireIntensity') = 0 /\ systems'[1].req = 0
          /\ systems'[1].accumulator = 0)

\* C5 as claimed: after ceil(1 / (suppressionRate * dt)) consecutive ticks of
\* dt with more than 5 foam particles in range, fireIntensity is 0
C5_Original ==
  (contact.any > 0 /\ contact.any >= TicksToZero(contact.dt)) => fireIntensity = 0

\* C5 amended: after k consecutive ticks of dt in which the foam system is
\* emitting and more than 5 foam particles are in range, fireIntensity is at
\* most 1 - k * suppressionRate * dt, hence 0 from k = ceil(1 / (suppressionRate
\* * dt)) on; from then on it stays 0 and the fire system's effective rate is 0
C5_SustainedSuppression ==
  /\ [](contact.emit > 0 =>
          /\ fireIntensity
               <= Max(0, IScale - contact.emit * ((SuppressionRate * contact.dt) \div 1000))
          /\ contact.emit >= TicksToZero(contact.dt) =>
               (fireIntensity = 0 /\ EffectiveRate(systems[1], fireIntensity) = 0))
  /\ [][ZeroStays]_vars

\* the fire is out after 167 ticks of 50 ms of emitting contact
C5_Witness ==
  /\ lastOp.op = "fireTick"
  /\ contact.dt = 50
  /\ contact.emit = TicksToZero(50)
  /\ fireIntensity = 0
  /\ systems[1].req = 0

\* a start() or stop() step changes the emitting flag and nothing else of
\* either component
ToggleStep ==
  lastOp'.op \in {"start", "stop"} =>
    /\ emitting' = (lastOp'.op = "start")
    /\ UNCHANGED <<data, particles, activeCount, spawnAcc, foamDraw, fireVars>>

\* a foam tick of a stopped system activates no slot and leaves the spawn
\* accumulator alone
NoSpawnWhileStopped ==
  (FoamTicked /\ ~emitting) =>
    /\ NewlyActive = {}
    /\ spawnAcc' = spawnAcc
    /\ lastOp'.req = 0

\* every particle active before a foam tick is aged by dt and then either
\* simulated (air or ground branch) and written to the buffers, or inactive
\* with life <= 0; no other step deactivates a particle
DrainStep ==
  \A i \in 1..Len(particles) :
    particles[i].active =>
      IF FoamTicked
      THEN /\ particles'[i].life = particles[i].life - lastOp'.dt
           /\ IF particles'[i].active
              THEN /\ particles'[i].branch \in {"air", "ground"}
                   /\ \E k \in 1..Len(foamDraw') :
                        /\ foamDraw'[k].slot = i
                        /\ foamDraw'[k].pos = particles'[i].pos
              ELSE particles'[i].life <= 0
      ELSE particles'[i] = particles[i]

\* C11: start() and stop() change only the emitting flag; while stopped no
\* slot becomes active; every particle active at stop() keeps being simulated
\* and written to the buffers each tick and becomes inactive only when its own
\* life reaches <= 0
C11_GracefulDrain == [][ToggleStep /\ NoSpawnWhileStopped /\ DrainStep]_vars

\* after stop() a tick has simulated the particles that were in flight: one
\* has run out of life, another is still alive and drawn
C11_Witness ==
  /\ ~emitting
  /\ lastOp.op = "foamTick"
  /\ lastOp.dt > 0
  /\ \E i \in 1..Len(particles) : particles[i].branch = "expired"
  /\ \E i \in 1..Len(particles) : particles[i].active /\ particles[i].branch = "air"
  /\ Len(foamDraw) > 0

\* the foam system's spawn step is the reference accumulator itself
FoamFollowsReference ==
  (FoamTicked /\ emitting) =>
    LET acc == spawnAcc + data.rate * lastOp'.dt
    IN /\ lastOp'.req = acc \div 1000
       /\ spawnAcc' = acc - (acc \div 1000) * 1000

\* C12 as claimed: in every tick every fire/smoke system requests the count
\* of the reference accumulator, also when fireIntensity changes between calls
C12_Original ==
  \A s \in 1..Len(systems) : systems[s].req = emission.sys[s].refReq

\* C12 amended: the foam system requests the reference count in every tick; a
\* fire/smoke system, which carries elapsed time and not particles, requests
\* the reference count as long as its effective rate is the one of every call
\* since the accumulator was last reset, and after a change of fireIntensity
\* a count that differs from the reference count by at most one
C12_ReferenceWhileSteady ==
  /\ [](\A s \in 1..Len(systems) :
          /\ emission.sys[s].steady => systems[s].req = emission.sys[s].refReq
          /\ Abs(systems[s].req - emission.sys[s].refReq) <= 1)
  /\ [][FoamFollowsReference]_vars

\* fireIntensity has changed between calls and the fire system requests one
\* particle fewer than the reference accumulator
C12_Witness ==
  /\ lastOp.op = "fireTick"
  /\ ~emission.sys[1].steady
  /\ emission.sys[1].refReq > 0
  /\ systems[1].req = emission.sys[1].refReq - 1

\* in a run of n spawn steps with the same rate and dt the requests issued
\* differ from rate * n * dt by less than one particle, so the run has issued
\* a request once rate * n * dt is a whole particle
RunFair(run, unit) ==
  run.n > 0 =>
    LET exact == run.rate * run.dt * run.n
    IN /\ Abs(run.total * unit - exact) < unit
       /\ exact >= unit => run.total >= 1

\* C13: with a constant effective rate R > 0 and a fixed dt the spawn requests
\* of N ticks differ from R * N * dt by less than one particle, so every
\* positive rate produces a particle once R * N * dt reaches one
C13_AccumulatorFair ==
  /\ RunFair(emission.foam, 1000)
  /\ \A s \in 1..Len(systems) : RunFair(emission.sys[s].run, ParticleUnit)

\* a fire system whose rate is below one particle per tick has been ticked
\* at that rate for 20 ticks and has requested particles
C13_Witness ==
  LET run == emission.sys[1].run
  IN /\ run.n >= 20
     /\ run.rate * run.dt < ParticleUnit
     /\ run.total >= 2
     /\ emission.foam.n = 0

\* effectiveRate * dt in whole particles
WholeParticles(rate, dt) == (rate * dt) \div ParticleUnit

\* a tick at an effective rate <= 0 pushes nothing and zeroes the accumulator
ResetStep ==
  FireTicked =>
    \A s \in 1..Len(systems) :
      EffectiveRate(systems[s], fireIntensity') <= 0 =>
        /\ systems'[s].req = 0
        /\ systems'[s].spawned = 0
        /\ systems'[s].pushed = systems[s].pushed
        /\ systems'[s].accumulator = 0

\* a tick that starts from a zero accumulator requests floor(effectiveRate * dt)
NoBurstStep ==
  FireTicked =>
    \A s \in 1..Len(systems) :
      (systems[s].accumulator = 0 /\ EffectiveRate(systems[s], fireIntensity') > 0) =>
        systems'[s].req = WholeParticles(EffectiveRate(systems[s], fireIntensity'),
                                         lastOp'.dt)

\* C14: a tick in which a fire/smoke system's effective rate is <= 0 spawns
\* nothing and sets its accumulator to 0, and a tick that finds the
\* accumulator at 0 spawns at most floor(effectiveRate * dt) particles
C14_ResetAtZeroRate == [][ResetStep /\ NoBurstStep]_vars

\* the tick in which fireIntensity reached 0 has zeroed a fire accumulator
\* that held a remainder
C14_Witness ==
  /\ lastOp.op = "fireTick"
  /\ fireIntensity = 0
  /\ emission.sys[1].accPre > 0
  /\ systems[1].accumulator = 0
  /\ systems[1].req = 0

\* the rate a system must be emitting at, from its flags and fireIntensity
ClaimedRate(sys, intensity) ==
  IF sys.isFire THEN sys.rate * intensity ELSE sys.rate * Max(0, intensity - 150)

\* C15: every system requests floor(rate * dt) particles or one more for the
\* rate rate * fireIntensity (fire) or rate * max(0, fireIntensity - 0.15)
\* (smoke); no smoke system spawns in a tick with fireIntensity <= 0.15, the
\* fire system does not spawn at fireIntensity = 0, and whenever a smoke
\* system spawns the fire system's rate is positive
C15_RateFactors ==
  [][FireTicked =>
       \A s \in 1..Len(systems) :
         LET sys  == systems[s]
             rate == ClaimedRate(sys, fireIntensity')
             n    == WholeParticles(rate, lastOp'.dt)
         IN /\ systems'[s].req \in {n, n + 1}
            /\ rate = 0 => systems'[s].req = 0
            /\ (sys.isSmoke /\ fireIntensity' <= 150) =>
                 (systems'[s].req = 0 /\ systems'[s].spawned = 0)
            /\ (sys.isFire /\ fireIntensity' = 0) =>
                 (systems'[s].req = 0 /\ systems'[s].spawned = 0)
            /\ (sys.isSmoke /\ systems'[s].spawned > 0) =>
                 \A f \in 1..Len(systems) :
                   systems[f].isFire => ClaimedRate(systems[f], fireIntensity') > 0]_vars

\* below the smoke threshold the fire system still spawns and the smoke
\* system, which has spawned before, requests nothing
C15_Witness ==
  /\ lastOp.op = "fireTick"
  /\ fireIntensity > 0
  /\ fireIntensity <= 150
  /\ systems[1].spawned > 0
  /\ systems[2].isSmoke
  /\ systems[2].pushed > 0
  /\ systems[2].req = 0

\* after every spawn step the accumulators hold less than one particle
RemainderOnly ==
  /\ spawnAcc >= 0
  /\ spawnAcc < 1000
  /\ \A s \in 1..Len(systems) :
       systems[s].accumulator >= 0 /\ systems[s].accumulator < ParticleUnit

\* a spawn step requests, and so spawns, at most floor(rate * dt + remainder)
NoQueueStep ==
  /\ (FoamTicked /\ emitting) =>
       /\ lastOp'.req = (data.rate * lastOp'.dt + spawnAcc) \div 1000
       /\ lastOp'.spawned <= lastOp'.req
       /\ Cardinality(NewlyActive) = lastOp'.spawned
  /\ FireTicked =>
       \A s \in 1..Len(systems) :
         /\ systems'[s].req
              <= (EffectiveRate(systems[s], fireIntensity') * lastOp'.dt
                    + systems[s].accumulator) \div ParticleUnit
         /\ systems'[s].spawned <= systems'[s].req

\* C16: requests that find no free slot are discarded: after every spawn
\* step the accumulator holds only a remainder in [0, 1) particle, however
\* many slots were free, and no tick spawns more than floor(rate * dt +
\* previous remainder) particles
C16_NoQueue == []RemainderOnly /\ [][NoQueueStep]_vars

\* a foam tick has refilled slots that had expired, dropped the requests
\* beyond them, and left half a particle in the accumulator
C16_Witness ==
  /\ lastOp.op = "foamTick"
  /\ lastOp.gotNull
  /\ lastOp.spawned > 0
  /\ lastOp.spawned < lastOp.req
  /\ lastOp.free < Len(particles)
  /\ \E i \in 1..Len(particles) : particles[i].active /\ particles[i].uses >= 2
  /\ spawnAcc = 500

\* C17: at the end of every tick the draw range of each system is [0, n) for
\* its n active particles and buffer entries 0..n-1 hold exactly the active
\* particles (foam: in pool order; fire/smoke: in list order), whether or not
\* the foam system is emitting
C17_DrawRange ==
  /\ Len(foamDraw) = NumActive(particles)
  /\ Len(foamDraw) = activeCount
  /\ \A k \in 1..Len(foamDraw) :
       /\ foamDraw[k].slot \in ActiveSlots(particles)
       /\ foamDraw[k].pos = particles[foamDraw[k].slot].pos
       /\ \A j \in 1..(k - 1) : foamDraw[j].slot < foamDraw[k].slot
  /\ \A s \in 1..Len(systems) :
       /\ Len(systems[s].draw) = Len(systems[s].particles)
       /\ \A k \in 1..Len(systems[s].draw) :
            /\ systems[s].draw[k].id = systems[s].particles[k].id
            /\ systems[s].draw[k].pos = systems[s].particles[k].position

\* a stopped foam system has been ticked: part of its pool is still active
\* and drawn, a freed slot lies before a drawn one, and the fire draws too
C17_Witness ==
  /\ ~emitting
  /\ lastOp.op = "foamTick"
  /\ lastOp.dt > 0
  /\ Len(foamDraw) > 0
  /\ Len(foamDraw) < Len(particles)
  /\ foamDraw[1].slot > 1
  /\ \E s \in 1..Len(systems) : Len(systems[s].draw) > 0

\* the control points are in non-decreasing t
NonDecreasing(points) ==
  \A i \in 1..(Len(points) - 1) : points[i][1] <= points[i + 1][1]

\* v is the linear interpolation at t between two neighbouring control points
Interpolates(points, t, v) ==
  \E k \in 1..(Len(points) - 1) :
    /\ points[k][1] < points[k + 1][1]
    /\ points[k][1] <= t
    /\ t <= points[k + 1][1]
    /\ v = points[k][2]
            + TDiv((t - points[k][1]) * (points[k + 1][2] - points[k][2]),
                   points[k + 1][1] - points[k][1])

\* C18 as claimed: with at least two control points in non-decreasing t,
\* getValueAt(t) is the first point's value for t at or below the first t, the last point's
\* value for t at or above the last t, and the linear interpolation of the
\* two neighbouring points in between; evaluation leaves the points alone
C18_Original ==
  /\ [](( /\ spline.calls > 0
           /\ Len(spline.points) >= 2
           /\ NonDecreasing(spline.points) ) =>
          LET pts  == spline.points
              last == pts[Len(pts)]
          IN /\ ~spline.nan
             /\ IF spline.t <= pts[1][1] THEN spline.value = pts[1][2]
                ELSE IF spline.t >= last[1] THEN spline.value = last[2]
                ELSE Interpolates(pts, spline.t, spline.value))
  /\ [][spline'.calls > spline.calls => spline'.points = spline.points]_vars

\* the colour splines as init() built them
NormalSpline(s) == InitSystems(fireData)[s].colorSpline

SuppressedSpline(s) == InitSystems(fireData)[s].suppressedColorSpline

\* c is a + (b - a) * (1 - fireIntensity), channel by channel
BlendOf(c, a, b) ==
  /\ c.r = a.r + TDiv((b.r - a.r) * (IScale - fireIntensity), IScale)
  /\ c.g = a.g + TDiv((b.g - a.g) * (IScale - fireIntensity), IScale)
  /\ c.b = a.b + TDiv((b.b - a.b) * (IScale - fireIntensity), IScale)

\* C19: the colour written for every fire/smoke particle is normal(age)
\* blended linearly toward suppressed(age) by 1 - fireIntensity: the normal
\* spline's value at fireIntensity = 1.0, the suppressed spline's value at
\* fireIntensity = 0.0; the control points of both splines stay as built
C19_ColourBlend ==
  \A s \in 1..Len(systems) :
    LET built == InitSystems(fireData)[s]
    IN /\ systems[s].colorSpline = built.colorSpline
       /\ systems[s].suppressedColorSpline = built.suppressedColorSpline
       /\ \A k \in 1..Len(systems[s].draw) :
            LET p          == systems[s].particles[k]
                normal     == GetValueAt(built.colorSpline, Age(p), "colour")
                suppressed == GetValueAt(built.suppressedColorSpline, Age(p), "colour")
            IN /\ systems[s].draw[k].colour = p.colour
               /\ BlendOf(p.colour, normal, suppressed)
               /\ fireIntensity = IScale => p.colour = normal
               /\ fireIntensity = 0 => p.colour = suppressed

\* the fire is out and a flame spawned earlier is still drawn, in the grey of
\* the suppressed spline
C19_Witness ==
  /\ fireIntensity = 0
  /\ \E k \in 1..Len(systems[1].draw) :
       LET c == systems[1].draw[k].colour
       IN /\ c = GetValueAt(SuppressedSpline(1), systems[1].draw[k].age, "colour")
          /\ c # GetValueAt(NormalSpline(1), systems[1].draw[k].age, "colour")
          /\ c.r = c.g
          /\ c.g = c.b

\* the particles of system s that this tick's spawn step pushed
PushedNow(s) ==
  {k \in 1..Len(systems'[s].particles) :
     systems'[s].particles[k].id > systems[s].pushed}

\* one fire tick: the suppression check has run once, before the systems;
\* each system has spawned at the rate of the new fireIntensity, then aged
\* and coloured every particle, the new ones included, with the new
\* fireIntensity, then written all of them to its buffers
TickOrder ==
  FireTicked =>
    LET fi == fireIntensity'
        dt == lastOp'.dt
    IN /\ fi \in {fireIntensity, Suppressed(fireIntensity, dt)}
       /\ \A s \in 1..Len(systems) :
            LET sys  == systems[s]
                rate == ClaimedRate(sys, fi)
            IN /\ IF rate <= 0
                  THEN systems'[s].req = 0 /\ systems'[s].accumulator = 0
                  ELSE systems'[s].req
                         = (AccumulatedAt(sys, RateFactor(sys, fi)) + rate * dt)
                             \div ParticleUnit
               /\ \A k \in PushedNow(s) :
                    systems'[s].particles[k].life
                      = systems'[s].particles[k].maxLife - dt
               /\ dt = 0 => Cardinality(PushedNow(s)) = systems'[s].spawned
               /\ Len(systems'[s].draw) = Len(systems'[s].particles)
               /\ \A k \in 1..Len(systems'[s].particles) :
                    LET p == systems'[s].particles[k]
                    IN /\ systems'[s].draw[k].id = p.id
                       /\ systems'[s].draw[k].pos = p.position
                       /\ systems'[s].draw[k].colour = p.colour
                       /\ p.colour = ParticleColour(sys, Age(p), fi)

\* C20: in each fire tick the suppression check runs first and once, then
\* each system runs spawn, integrate, geometry sync in that order, so the
\* emission rate and the colour blend of a tick are those of the
\* fireIntensity after that tick's suppression update
C20_TickOrder == [][TickOrder]_vars

\* a tick has lowered fireIntensity and then spawned a flame, aged it by dt
\* and drawn it in a colour that is already blended toward the suppressed one
C20_Witness ==
  /\ lastOp.op = "fireTick"
  /\ lastOp.dt > 0
  /\ lastOp.hits > 5
  /\ emitting
  /\ fireIntensity < IScale
  /\ systems[1].spawned > 0
  /\ \E k \in 1..Len(systems[1].draw) :
       LET p == systems[1].particles[k]
       IN /\ p.id > systems[1].pushed - systems[1].spawned
          /\ p.life = p.maxLife - lastOp.dt
          /\ systems[1].draw[k].colour
               # GetValueAt(systems[1].colorSpline, Age(p), "colour")

\* a fire tick leaves the foam system's records, activeCount, emitting flag
\* and spawn accumulator as they were
FireLeavesFoam ==
  FireTicked => UNCHANGED <<particles, activeCount, emitting, spawnAcc>>

\* a foam tick, start() or stop() leaves fireIntensity and every fire, smoke
\* and ceiling-smoke particle as it was
FoamLeavesFire ==
  lastOp'.op \in {"foamTick", "start", "stop"} =>
    /\ fireIntensity' = fireIntensity
    /\ Len(systems') = Len(systems)
    /\ \A s \in 1..Len(systems) : systems'[s].particles = systems[s].particles

\* C21: the two particle systems are coupled only through fireIntensity: a
\* fire tick changes no foam state, and a foam tick, start() or stop()
\* changes neither fireIntensity nor any fire or smoke particle
C21_OnlyCoupling == [][FireLeavesFoam /\ FoamLeavesFire]_vars

\* a fire tick has counted more than 5 foam particles in range and lowered
\* fireIntensity; the foam it counted is still active
C21_Witness ==
  /\ lastOp.op = "fireTick"
  /\ lastOp.dt > 0
  /\ lastOp.hits > 5
  /\ fireIntensity < IScale
  /\ FoamHitCount(particles, FirePos) = lastOp.hits
  /\ activeCount >= lastOp.hits
  /\ \E s \in 1..Len(systems) : Len(systems[s].particles) > 0

\* what one tick does to system s at the given fireIntensity: spawn,
\* integrate, sync
TickedAt(s, intensity) ==
  TickSystem(systems[s], fireData, intensity, FirePos, CameraPos, lastOp'.dt, rng + s)

\* C22: when #foam-nozzle or its foam-system component is absent, a fire
\* tick skips the suppression check: fireIntensity is unchanged and every
\* fire/smoke system still spawns, integrates and syncs in that tick
C22_MissingNozzle ==
  [][(FireTicked /\ ~scene.present) =>
       /\ fireIntensity' = fireIntensity
       /\ \A s \in 1..Len(systems) :
            /\ systems'[s] = TickedAt(s, fireIntensity)
            /\ systems'[s].req = (systems[s].accumulator
                                    + EffectiveRate(systems[s], fireIntensity) * lastOp'.dt)
                                   \div ParticleUnit
            /\ Len(systems'[s].draw) = Len(systems'[s].particles)]_vars

\* the fire finds no foam-system on #foam-nozzle while a foam-system
\* elsewhere sprays more than 5 particles into range: the fire has ticked at
\* full intensity, and flames were spawned, aged and drawn
C22_Witness ==
  /\ ~scene.present
  /\ lastOp.op = "fireTick"
  /\ lastOp.dt > 0
  /\ lastOp.hits > 5
  /\ emitting
  /\ fireIntensity = IScale
  /\ systems[1].spawned > 0
  /\ Len(systems[1].draw) > 0

\* C23: from fireIntensity = 1.0 with no foam particles, after 60 ticks of
\* 1/60 s the fire system holds at least one particle and fireIntensity is
\* still exactly 1.0
C23_ColdStart ==
  (frames = ColdFrames /\ NumActive(particles) = 0) =>
    /\ Len(systems[1].particles) > 0
    /\ Len(systems[1].draw) > 0
    /\ fireIntensity = IScale

\* the 60th tick is done: no foam was ever sprayed, the oldest flames have
\* burnt out and new ones are alive
C23_Witness ==
  /\ frames = ColdFrames
  /\ lastOp.dt \in {16, 17}
  /\ activeCount = 0
  /\ ~emitting
  /\ systems[1].pushed > Len(systems[1].particles)
  /\ Len(systems[1].particles) > 0

\* the foam pool is the array init() made: same length, same records; a
\* record's activation count moves only when a spawn takes it
FoamPoolFixed ==
  /\ Len(particles') = Len(particles)
  /\ Len(particles) = data.maxParticles
  /\ \A i \in 1..Len(particles) :
       particles'[i].uses \in {particles[i].uses, particles[i].uses + 1}

\* a foam spawn takes records that were inactive and resets them; expiry
\* only clears the active flag of a record whose life has run out
FoamFlipsOnly ==
  FoamTicked =>
    LET taken == {i \in 1..Len(particles) : particles'[i].uses = particles[i].uses + 1}
    IN /\ Cardinality(taken) = lastOp'.spawned
       /\ \A i \in taken :
            /\ ~particles[i].active
            /\ particles'[i].active
            /\ particles'[i].life = particles'[i].maxLife - lastOp'.dt
            /\ particles'[i].groundTime = 0
       /\ \A i \in 1..Len(particles) \ taken :
            /\ particles'[i].active => particles[i].active
            /\ (particles[i].active /\ ~particles'[i].active)
                 => particles'[i].life = particles[i].life - lastOp'.dt
                    /\ particles'[i].life <= 0

\* C24 as stated, for the fire, smoke and ceiling-smoke systems: a tick
\* leaves the set of particle records of each system as it was
C24_Original ==
  [][\A s \in 1..Len(systems) :
       Ids(systems'[s].particles) = Ids(systems[s].particles)]_vars

\* per fire/smoke system in a fire tick: the records that are new were not
\* in the list before and were pushed by this tick's spawn step, the list
\* stays within capacity, and the records that are gone had run out of life
FireListStep ==
  FireTicked =>
    \A s \in 1..Len(systems) :
      LET old  == Ids(systems[s].particles)
          new  == Ids(systems'[s].particles)
      IN /\ Len(systems'[s].particles) <= systems[s].capacity
         /\ Cardinality(new) = Len(systems'[s].particles)
         /\ \A id \in new \ old :
              /\ id > systems[s].pushed
              /\ id <= systems[s].pushed + systems'[s].spawned
         /\ systems'[s].spawned <= systems[s].capacity - Len(systems[s].particles)
         /\ \A id \in old \ new :
              ById(systems[s].particles, id).life - lastOp'.dt <= 0
         /\ \A id \in old \cap new :
              ById(systems'[s].particles, id).life
                = ById(systems[s].particles, id).life - lastOp'.dt

\* C24 (amended): the foam system's set of records is created once by init()
\* and is the same in every later state: a spawn flips an inactive record to
\* active and resets its fields, expiry flips it back. The fire, smoke and
\* ceiling-smoke systems keep a list that starts empty: a spawn pushes a new
\* record while the list is shorter than capacity, and expiry drops the
\* record from the list
C24_PoolAndLists ==
  [][FoamPoolFixed /\ FoamFlipsOnly /\ FireListStep
     /\ (~FireTicked => \A s \in 1..Len(systems) :
                           systems'[s].particles = systems[s].particles)]_vars

\* a foam tick has taken an inactive record for the second time while
\* another one expired, and a fire system has both dropped and pushed records
C24_Witness ==
  /\ \E i \in 1..Len(particles) : particles[i].active /\ particles[i].uses >= 2
  /\ \E i \in 1..Len(particles) : ~particles[i].active /\ particles[i].uses >= 1
  /\ \E s \in 1..Len(systems) :
       /\ systems[s].pushed > Len(systems[s].particles)
       /\ \E k \in 1..Len(systems[s].particles) :
            systems[s].particles[k].id = systems[s].pushed

\* number of fire-system ticks taken so far
FireTicks ==
  frames + (IF scene.first = "fire" /\ turn.delta >= 0 THEN 1 ELSE 0)

\* ps is ordered back to front as seen from the camera
BackToFront(ps) ==
  \A k \in 1..(Len(ps) - 1) :
    DistSq(CameraPos, ps[k].position) >= DistSq(CameraPos, ps[k + 1].position)

\* ps keeps the records in the order they had in old, new records last
OrderKept(old, ps) ==
  \A k \in 1..(Len(ps) - 1) :
    \/ ps[k].id < ps[k + 1].id /\ ps[k + 1].id \notin Ids(old)
    \/ /\ ps[k].id \in Ids(old)
       /\ ps[k + 1].id \in Ids(old)
       /\ (CHOOSE a \in 1..Len(old) : old[a].id = ps[k].id)
            < (CHOOSE b \in 1..Len(old) : old[b].id = ps[k + 1].id)

\* the ticks in which a system sorts: the 1st, 7th, 13th, ...
SortTick(n) == n % 6 = 1

\* in a fire tick every system sorts exactly when the tick's number is 1
\* more than a multiple of 6, from its own counter
SortStep ==
  FireTicked =>
    \A s \in 1..Len(systems) :
      /\ systems'[s].sortSkip
           = IF systems[s].sortSkip <= 0 THEN 5 ELSE systems[s].sortSkip - 1
      /\ IF SortTick(FireTicks')
         THEN systems[s].sortSkip <= 0 /\ BackToFront(systems'[s].particles)
         ELSE /\ systems[s].sortSkip > 0
              /\ OrderKept(systems[s].particles, systems'[s].particles)

\* C25: each fire/smoke system re-sorts its particles back to front on its
\* first tick and then on exactly every 6th tick after that, with 5 unsorted
\* ticks between two sorts; each system counts for itself
C25_SortCadence == [][SortStep]_vars

\* the 7th tick has sorted for the second time: the list is back to front
\* and a flame pushed in this tick is no longer at its end
C25_Witness ==
  /\ lastOp.op = "fireTick"
  /\ FireTicks = 7
  /\ systems[1].sortSkip = 5
  /\ systems[1].spawned > 0
  /\ Len(systems[1].particles) > 2
  /\ systems[1].particles[Len(systems[1].particles)].id < systems[1].pushed
  /\ BackToFront(systems[1].particles)

\* C26: with a foam-system on #foam-nozzle that does not auto-start, after
\* any sequence of grip, trigger-down, trigger-up and seal-button events and
\* setEnabled calls the foam system's emitting flag equals isSpraying
C26_SprayFollowsTrigger ==
  (scene.present /\ ~data.autoStart) => emitting = ctrl.isSpraying

\* the trainee sprayed with the seal removed, foam was emitted, and a
\* setEnabled(false) has taken the extinguisher out of the hand
C26_Witness ==
  /\ scene.present
  /\ lastOp.op = "setEnabled"
  /\ ctrl.requireSeal
  /\ ctrl.sealRemoved
  /\ ~ctrl.enabled
  /\ ~ctrl.isHeld
  /\ ~ctrl.isSpraying
  /\ ~emitting
  /\ activeCount > 0

\* the resources of a system that remove() has been called on `calls` times
\* are out of the scene, each disposed `times` times
TornDown(pts, times) ==
  /\ ~pts.inScene
  /\ pts.geometry = times
  /\ pts.material = times

\* C27 as stated: once remove() has been called on a system, its resources
\* are out of the scene and have been disposed once, however many calls
\* were made
C27_Original ==
  /\ torn.foamCalls > 0 => TornDown(torn.foam, 1)
  /\ torn.fireCalls > 0 =>
       ~torn.light /\ \A s \in 1..Len(torn.fire) : TornDown(torn.fire[s], 1)

\* C27 (amended): remove() can be repeated: a second call leaves the system
\* in the same torn-down state as the first (points and fire light out of the
\* scene, no particle state changed), but it is not guarded: every call
\* disposes the geometry and the material of the system again
C27_RepeatedTeardown ==
  [][/\ lastOp'.op = "foamRemove" =>
          /\ torn'.foamCalls = torn.foamCalls + 1
          /\ TornDown(torn'.foam, torn'.foamCalls)
          /\ torn.foamCalls > 0 => torn'.foam.inScene = torn.foam.inScene
          /\ torn'.fire = torn.fire /\ torn'.light = torn.light
          /\ UNCHANGED <<emitting, particles, activeCount, spawnAcc, foamDraw>>
     /\ lastOp'.op = "fireRemove" =>
          /\ torn'.fireCalls = torn.fireCalls + 1
          /\ ~torn'.light
          /\ \A s \in 1..Len(torn.fire) : TornDown(torn'.fire[s], torn'.fireCalls)
          /\ torn'.foam = torn.foam
          /\ UNCHANGED fireVars
     /\ lastOp'.op \notin {"foamRemove", "fireRemove"} => torn' = torn]_vars

\* both systems ran, foam and flames were in flight, and remove() was called
\* twice on each
C27_Witness ==
  /\ torn.foamCalls = 2
  /\ torn.fireCalls = 2
  /\ activeCount > 0
  /\ Len(systems[1].particles) > 0
  /\ ~torn.foam.inScene
  /\ ~torn.light

\* C28: burnAmount never decreases and stays within [0, 1]; it grows only in
\* a burn-effect tick that finds the parent's fireIntensity above
\* minIntensity, and once fireIntensity is at or below minIntensity it stays
\* there, so burnAmount stays constant from then on
C28_BurnMonotone ==
  [][/\ burn'.burnAmount >= burn.burnAmount
     /\ burn'.burnAmount >= 0
     /\ burn'.burnAmount <= BurnScale
     /\ burn'.burnAmount > burn.burnAmount =>
          /\ lastOp'.op = "burnTick"
          /\ burn.data.hasFire
          /\ fireIntensity > burn.data.minIntensity
     /\ fireIntensity <= burn.data.minIntensity =>
          /\ fireIntensity' <= burn.data.minIntensity
          /\ burn'.burnAmount = burn.burnAmount]_vars

\* the material has charred while the fire burnt; the foam has then pushed
\* fireIntensity to minIntensity or below, and a burn-effect tick has left
\* burnAmount where it was
C28_Witness ==
  /\ lastOp.op = "burnTick"
  /\ lastOp.dt > 0
  /\ burn.data.hasFire
  /\ fireIntensity <= burn.data.minIntensity
  /\ burn.burnAmount > 0
  /\ burn.burnAmount < BurnScale
  /\ ~burn.grew

\* C29: with the default configuration the machine starts in 'intro'; the
\* events start, proceed, ready, fire_out, done handed to next() in turn
\* visit sizeup, approach, suppress, overhaul, done in that order, the order
\* forward() steps through; in 'done' no event causes a transition
C29_TrainingScript ==
  /\ training.steps = 0 => training.current = "intro"
  /\ training.run = "script" =>
       training.current = StateKeys[Min(training.steps + 1, Len(StateKeys))]
  /\ training.run = "forward" =>
       training.current = StateKeys[Min(training.steps + 1, Len(StateKeys))]
  /\ (training.last.op = "next" /\ training.last.from = "done") =>
       ~training.last.moved /\ training.current = "done"

\* the five events of the script were handed to next() in turn and the
\* machine is in 'done', where a sixth event has changed nothing
C29_Witness ==
  /\ training.initial = "intro"
  /\ training.steps = Len(Script) + 1
  /\ training.run = "script"
  /\ training.last = [op |-> "next", arg |-> "done", from |-> "done", moved |-> FALSE,
                      events |-> <<>>]
  /\ training.current = "done"

\* the k-th text handed to show() has been written to the text element
Shown(k) == Len(hud.displayed) >= k

\* C30 as stated (liveness part, read up to the component's removal): every
\* message handed to show() is eventually displayed
C30_Original ==
  \A k \in 1..MaxMessages :
    (Len(hud.queued) >= k) ~> (Shown(k) \/ hud.removed)

\* the texts displayed so far are the first of those queued, in the same
\* order; the rest is the current message's successors in the queue; while
\* a timer is pending the HUD shows the message last displayed, and nothing
\* is displayed without the HUD
OneAtATime ==
  /\ Len(hud.displayed) <= Len(hud.queued)
  /\ hud.displayed = SubSeq(hud.queued, 1, Len(hud.displayed))
  /\ hud.hasCamera =>
       hud.messages = SubSeq(hud.queued, Len(hud.displayed) + 1, Len(hud.queued))
  /\ hud.timer =>
       /\ hud.currentMessage = <<hud.displayed[Len(hud.displayed)]>>
       /\ hud.value = hud.displayed[Len(hud.displayed)]
       /\ hud.visible
  /\ ~hud.hasCamera => hud.displayed = <<>>

\* a text is displayed only by a show() that finds no timer pending or by
\* the timer's own callback
DisplayStep ==
  Len(hud'.displayed) > Len(hud.displayed) =>
    /\ Len(hud'.displayed) = Len(hud.displayed) + 1
    /\ hud.timer => (Len(hud'.queued) = Len(hud.queued) /\ hud.messages # <<>>)
    /\ ~hud.timer => (Len(hud'.queued) = Len(hud.queued) + 1 /\ hud.messages = <<>>)

\* C30 (amended): when init() found a #camera, messages are displayed one
\* at a time in the order show() was called (the displayed texts are a
\* prefix of the queued ones, none is displayed while another message's
\* timer is pending) and every queued message is eventually displayed unless
\* remove() comes first; without a #camera no message is ever displayed
C30_FifoWithHud ==
  /\ []OneAtATime
  /\ [][DisplayStep]_vars
  /\ \A k \in 1..MaxMessages :
       (hud.hasCamera /\ Len(hud.queued) >= k) ~> (Shown(k) \/ hud.removed)

\* four messages were queued while the first was on display, two or more
\* waited at a time, and all four have been displayed in order
C30_Witness ==
  /\ hud.hasCamera
  /\ ~hud.removed
  /\ Len(hud.queued) = MaxMessages
  /\ hud.displayed = hud.queued
  /\ hud.waited >= 2
  /\ hud.queued[1] # hud.queued[2]
  /\ ~hud.timer
  /\ hud.currentMessage = <<>>
  /\ ~hud.visible

\* C31 as stated: whenever a panel is visible, movement is locked
C31_Original == panels.currentPanel # "none" => panels.isLocked

\* isHeld falls only in a setEnabled(false)
HeldUntilDisabled ==
  (ctrl.isHeld /\ ~ctrl'.isHeld) => (lastOp'.op = "setEnabled" /\ ~ctrl'.enabled)

SprayStart ==
  (~ctrl.isSpraying /\ ctrl'.isSpraying) =>
    /\ lastOp'.op = "triggerdown"
    /\ ctrl.isHeld
    /\ ctrl.enabled
    /\ ctrl.requireSeal => ctrl.sealRemoved

\* C36: the controller starts spraying only on a trigger-down received
\* while held and enabled and, when requireSeal is set, after the seal has
\* been removed; in every state isSpraying implies isHeld and enabled
C36_SprayGuard ==
  /\ [](ctrl.isSpraying => (ctrl.isHeld /\ ctrl.enabled))
  /\ [][SprayStart]_vars

\* with the seal required, a trigger-down sprays once the seal is removed
C36_Witness ==
  /\ ctrl.requireSeal
  /\ ctrl.sealRemoved
  /\ ctrl.isSpraying
  /\ lastOp.op = "triggerdown"

\* C37 as stated: sealRemoved never reverts and extinguisher-seal-removed
\* is emitted at most once
C37_Original ==
  /\ ctrl.sealEmits <= 1
  /\ ctrl.sealEmits >= 1 => ctrl.sealRemoved

\* C33: in every reachable state of the foam system activeCount equals the
\* number of pool records whose active flag is true
C33_ActiveCount == activeCount = NumActive(particles)

\* records have been spawned, one has expired on the ground, a slot has
\* been taken again, and some records are active while others are not
C33_Witness ==
  /\ activeCount > 0
  /\ activeCount < Len(particles)
  /\ \E i \in 1..Len(particles) : particles[i].active /\ particles[i].uses >= 2
  /\ \E i \in 1..Len(particles) :
       ~particles[i].active /\ particles[i].branch = "expired" /\ particles[i].grounded

\* what _spawn() would write into each inactive record of the pool now
\* starts airborne with its whole life ahead, whatever the record holds
SpawnStartsAirborne ==
  \A i \in 1..Len(particles) :
    ~particles[i].active =>
      LET n == SpawnedParticle(particles[i], data, scene.pose.origin,
                               scene.pose.dir, rng, 3 * (i - 1))
      IN /\ n.active
         /\ ~n.grounded
         /\ n.groundTime = 0
         /\ n.life = n.maxLife
         /\ n.life > 0

\* a record taken in this tick has lived one step of its own life and none
\* of it on the ground
ReusedAirborne ==
  \A i \in 1..Len(particles) :
    particles'[i].uses > particles[i].uses =>
      /\ ~particles[i].active
      /\ particles'[i].maxLife > 0
      /\ particles'[i].life = particles'[i].maxLife - lastOp'.dt
      /\ particles'[i].groundTime = 0
      /\ particles'[i].branch \in {"air", "expired"}

\* C34: a foam slot that is reused always starts airborne: whatever the
\* previous occupant's state, a newly spawned particle has grounded = false,
\* groundTime = 0 and life = maxLife > 0
C34_ReuseAirborne == []SpawnStartsAirborne /\ [][ReusedAirborne]_vars

\* a slot whose last occupant died on the ground waits for reuse while
\* another slot, taken for the second time, is airborne again
C34_Witness ==
  /\ \E i \in 1..Len(particles) :
       /\ ~particles[i].active
       /\ particles[i].grounded
       /\ particles[i].groundTime > 0
  /\ \E i \in 1..Len(particles) :
       /\ particles[i].active
       /\ particles[i].uses >= 2
       /\ ~particles[i].grounded
       /\ particles[i].groundTime = 0
  /\ lastOp.op = "foamTick"
  /\ lastOp.spawned > 0

\* every system of the fire is empty and draws nothing
FireEmpty ==
  \A s \in 1..Len(systems) :
    Len(systems[s].particles) = 0 /\ Len(systems[s].draw) = 0

\* from fireIntensity = 0 on: the intensity stays 0, a fire tick pushes no
\* record into any system, and an empty system stays empty
ExtinguishedStep ==
  /\ fireIntensity = 0 => fireIntensity' = 0
  /\ (fireIntensity' = 0 /\ FireTicked) =>
       \A s \in 1..Len(systems) :
         /\ systems'[s].spawned = 0
         /\ systems'[s].pushed = systems[s].pushed
         /\ Len(systems'[s].particles) <= Len(systems[s].particles)
         /\ Len(systems'[s].draw) = Len(systems'[s].particles)

\* C35: once fireIntensity has reached 0 it stays 0, no fire, smoke or
\* ceiling-smoke particle is spawned again, and under ticks with positive dt
\* each system's particle count and draw range reach 0 and stay 0
C35_BurnsOut ==
  /\ [][ExtinguishedStep]_vars
  /\ (fireIntensity = 0) ~> [](fireIntensity = 0 /\ FireEmpty)

\* the fire is out, every system has pushed particles before, and all of
\* them are gone while frames are still being ticked
C35_Witness ==
  /\ fireIntensity = 0
  /\ FireEmpty
  /\ Len(systems) = 3
  /\ \A s \in 1..Len(systems) : systems[s].pushed > 0
  /\ lastOp.op = "fireTick"
  /\ lastOp.dt > 0
  /\ frames < scene.cap

\* the last request could not be honoured, by the claim's own account: a
\* next(event) for which the state left declares no target, a forward() in
\* the last state, a back() in the first, a goTo() of a name the
\* configuration does not have
Unhonourable ==
  LET l == training.last
  IN \/ l.op = "next" /\ ~\E tr \in Transitions : tr[1] = l.from /\ tr[2] = l.arg
     \/ l.op = "forward" /\ l.from = StateKeys[Len(StateKeys)]
     \/ l.op = "back" /\ l.from = StateKeys[1]
     \/ l.op = "goTo" /\ ~IsKey(l.arg)

\* C38 as stated: a request that cannot be honoured returns false, leaves
\* the current state unchanged and emits no training-state-enter event;
\* every honoured request emits exactly one, with the new and the previous
\* state
C38_Original ==
  LET l == training.last
  IN /\ Unhonourable =>
          (~l.moved /\ training.current = l.from /\ l.events = <<>>)
     /\ (l.op \in {"next", "forward", "back", "goTo"} /\ l.moved) =>
          l.events = <<[state |-> training.current, prev |-> l.from]>>

\* C39 as stated: after init and after any sequence of setMode and
\* setEnabled calls, teleport controls are enabled exactly when the
\* controller is enabled and its mode is 'teleport'
C39_Original ==
  move.hasLeft => (move.teleport <=> (move.enabled /\ move.mode = "teleport"))

\* the list as the last frame's spawn loop left it, before the frame's
\* update removed the expired particles
Filled(sys) == sys.capacity - sys.free + sys.spawned

\* the list stayed below the capacity in the last frame and every particle
\* the frame asked for was spawned
Roomy(sys) ==
  /\ Len(sys.particles) < sys.capacity
  /\ sys.spawned = sys.req
  /\ sys.spawned > 0 => Filled(sys) < sys.capacity

\* C40 as stated: with capacity = max(64, ceil(rate * maxLife * 1.5)) no
\* system reaches its capacity and no spawn request is dropped
C40_Original ==
  \A s \in 1..Len(systems) : Roomy(systems[s])

\* rate * (maxLife + 0.05) + 1 <= capacity: the particles of one more
\* frame than a life lasts fit
Headroom(sys) == sys.rate * (sys.maxLife + 50) + 1000 <= sys.capacity * 1000

\* C40 (amended): a system whose capacity is at least
\* rate * (maxLife + 0.05) + 1, as with the schema defaults, never reaches
\* its capacity in ticks with dt <= 0.05, and none of its spawn requests is
\* dropped
C40_Headroom ==
  \A s \in 1..Len(systems) :
    Headroom(systems[s]) => Roomy(systems[s])

\* a fire with 64 slots and room to spare holds thirty or more particles
\* after the spawn loop of a frame that asked for twenty
C40_Witness ==
  /\ lastOp.op = "fireTick"
  /\ Headroom(systems[1])
  /\ systems[1].capacity = 64
  /\ systems[1].req >= 20
  /\ systems[1].spawned = systems[1].req
  /\ Filled(systems[1]) >= 30

====
